---- MODULE Spec2Model ----
(***************************************************************************)
(* A model of the veles storage layer.                                     *)
(*                                                                         *)
(* Part 1: the log-structured key/value store of src/src/storage.rs        *)
(* (VelesStore): the on-disk record codec, the open-time replay, get, put  *)
(* and compact, over a byte-level model of the two files the store uses.   *)
(*                                                                         *)
(* Part 2: the content-addressed object store: the Object writer of        *)
(* src/src/repo.rs and do_commit / uncommit of src/src/lib.rs.             *)
(*                                                                         *)
(* Part 3: the manifest builder of src/src/lib.rs over the listing of the  *)
(* directory walker (DirIterator).                                         *)
(*                                                                         *)
(* Part 4: the changeset ledger of src/src/dao.rs (VelesDAO) over the      *)
(* tables and rows of the store file.                                      *)
(*                                                                         *)
(* Part 5: the client of src/src/client.rs: the working-copy index, add    *)
(* and submit, with the repository's side of a submit after the design.    *)
(*                                                                         *)
(* Part 6: the open-time replay of Part 1 over logs whose records and      *)
(* offsets reach beyond 32 bits, record by record.                         *)
(***************************************************************************)
EXTENDS Integers, Sequences, FiniteSets, TLC

(***************************************************************************)
(* Bounds of the model.                                                    *)
(***************************************************************************)
\* Records in the log of large records.
MaxBig == 3
\* Successful top-level put calls in one behaviour.
MaxPuts == 3
\* The clock readings (epoch seconds) a put may see are 0..MaxTime.
MaxTime == 0
\* Calls of compact in one behaviour.
MaxCompacts == 2
\* Injected I/O failures and process stops in one behaviour.
MaxFaults == 1
\* Bytes damaged on disk in one behaviour.
MaxFlips == 1
\* Object values alive at the same time.
MaxWriters == 1
\* Object writes (Object::new or do_commit calls) in one behaviour.
MaxObjects == 3
\* Bytes written into one Object.
MaxLen == 2
\* Calls of manifest in one behaviour.
MaxManifests == 1

\* The changesets inserted into the ledger.
MaxChangesets == 3
\* Object values alive at once where writers interleave.
MaxOpen == 2

(***************************************************************************)
(* Bytes, fixed-width integers, and the inputs of the model.               *)
(***************************************************************************)
Byte == 0..255

\* The largest integer of the model.  A u32 read from disk that is larger
\* stands as MaxInt: every file of the model is shorter than either, so a
\* read of that many bytes fails in the same way.
MaxInt == 2147483647

\* Keys and values are UTF-8 strings, here as their bytes: "a", "b" and
\* "x", "yy".
Keys == {<<97>>, <<98>>}

Values == {<<120>>, <<121, 121>>}

\* The byte changes the environment may make to a stored byte (xor masks).
FlipMasks == {1, 2, 128}

RECURSIVE Xor(_, _)
Xor(a, b) ==
    IF a = 0 THEN b
    ELSE IF b = 0 THEN a
    ELSE (((a % 2) + (b % 2)) % 2) + (2 * Xor(a \div 2, b \div 2))

XorTable == [a \in Byte |-> [b \in Byte |-> Xor(a, b)]]

\* bincode's fixed-width little-endian integers.
LE32(n) ==
    <<n % 256, (n \div 256) % 256, (n \div 65536) % 256, (n \div 16777216) % 256>>

FromLE32(b) ==
    IF b[4] >= 128 THEN MaxInt
    ELSE b[1] + (b[2] * 256) + (b[3] * 65536) + (b[4] * 16777216)

\* An i16 in two's complement, little-endian.
LE16(n) == LET u == IF n < 0 THEN n + 65536 ELSE n IN <<u % 256, (u \div 256) % 256>>

FromLE16(b) == LET u == b[1] + (b[2] * 256) IN IF u >= 32768 THEN u - 65536 ELSE u

(***************************************************************************)
(* crc32fast::Hasher: the IEEE CRC-32 (reflected, polynomial EDB88320).    *)
(* A checksum is held as its four bytes, most significant first, which is  *)
(* what u32::to_be_bytes writes and u32::from_be_bytes reads.              *)
(***************************************************************************)
CrcPolyHi == 60856

CrcPolyLo == 33568

\* n steps of the bitwise CRC on the 32-bit word hi * 2^16 + lo.
RECURSIVE CrcBits(_, _, _)
CrcBits(hi, lo, n) ==
    IF n = 0 THEN <<hi \div 256, hi % 256, lo \div 256, lo % 256>>
    ELSE LET hi1 == hi \div 2
             lo1 == (lo \div 2) + ((hi % 2) * 32768)
         IN IF lo % 2 = 1
            THEN CrcBits(Xor(CrcPolyHi, hi1), Xor(CrcPolyLo, lo1), n - 1)
            ELSE CrcBits(hi1, lo1, n - 1)

CrcTable == [n \in Byte |-> CrcBits(0, n, 8)]

\* One byte b taken into the running checksum c.
CrcByte(c, b) ==
    LET t == CrcTable[XorTable[c[4]][b]]
    IN <<t[1], XorTable[t[2]][c[1]], XorTable[t[3]][c[2]], XorTable[t[4]][c[3]]>>

\* Hasher::update over the bytes lo..hi of data, in order.  The range is
\* halved rather than walked, and the checksum of the left half is looked
\* at (it has four bytes) before the right half is entered: this keeps the
\* evaluation shallow for long data.  The bytes are taken in the same order
\* either way.
RECURSIVE CrcUpdate(_, _, _, _)
CrcUpdate(c, data, lo, hi) ==
    IF lo > hi THEN c
    ELSE IF lo = hi THEN CrcByte(c, data[lo])
    ELSE LET mid == (lo + hi) \div 2
             left == CrcUpdate(c, data, lo, mid)
         IN IF Len(left) = 4 THEN CrcUpdate(left, data, mid + 1, hi) ELSE left

\* Hasher::new(); update(data); finalize(), as crc.to_be_bytes().
Crc32(data) ==
    LET c == CrcUpdate(<<255, 255, 255, 255>>, data, 1, Len(data))
    IN <<255 - c[1], 255 - c[2], 255 - c[3], 255 - c[4]>>

(***************************************************************************)
(* String::from_utf8: whether a byte sequence is well-formed UTF-8.        *)
(***************************************************************************)
IsCont(b) == b >= 128 /\ b <= 191

RECURSIVE Utf8From(_, _)
Utf8From(b, i) ==
    IF i > Len(b) THEN TRUE
    ELSE IF b[i] < 128 THEN Utf8From(b, i + 1)
    ELSE IF b[i] >= 194 /\ b[i] <= 223
        THEN i + 1 <= Len(b) /\ IsCont(b[i + 1]) /\ Utf8From(b, i + 2)
    ELSE IF b[i] >= 224 /\ b[i] <= 239
        THEN /\ i + 2 <= Len(b)
             /\ IsCont(b[i + 1]) /\ IsCont(b[i + 2])
             /\ (b[i] = 224 => b[i + 1] >= 160)
             /\ (b[i] = 237 => b[i + 1] <= 159)
             /\ Utf8From(b, i + 3)
    ELSE IF b[i] >= 240 /\ b[i] <= 244
        THEN /\ i + 3 <= Len(b)
             /\ IsCont(b[i + 1]) /\ IsCont(b[i + 2]) /\ IsCont(b[i + 3])
             /\ (b[i] = 240 => b[i + 1] >= 144)
             /\ (b[i] = 244 => b[i + 1] <= 143)
             /\ Utf8From(b, i + 4)
    ELSE FALSE

from_utf8_ok(b) == Utf8From(b, 1)

(***************************************************************************)
(* The record header and its bincode encoding.                             *)
(***************************************************************************)
HEADER_SIZE == 16

RowHeader(ts, ks, vs) ==
    [timestamp |-> ts, key_size |-> ks, value_size |-> vs, key_type |-> 1, value_type |-> 1]

\* bincode::serialize(&header)
serialize(h) ==
    LE32(h.timestamp) \o LE32(h.key_size) \o LE32(h.value_size)
        \o LE16(h.key_type) \o LE16(h.value_type)

\* bincode::deserialize_from(header_bytes)
deserialize(b) ==
    [timestamp |-> FromLE32(SubSeq(b, 1, 4)),
     key_size |-> FromLE32(SubSeq(b, 5, 8)),
     value_size |-> FromLE32(SubSeq(b, 9, 12)),
     key_type |-> FromLE16(SubSeq(b, 13, 14)),
     value_type |-> FromLE16(SubSeq(b, 15, 16))]

(***************************************************************************)
(* The files.  fs maps each existing path to the file's bytes; a handle is *)
(* the path its file is linked at, a cursor, and the append flag.          *)
(***************************************************************************)
DbPath == ".veles/veles.db"

CompactPath == ".veles/veles_compact.db"

NoFile == [path |-> "", pos |-> 0, append |-> FALSE]

Exists(files, p) == p \in DOMAIN files

\* The files with path p holding bytes b.
WithFile(files, p, b) ==
    [q \in (DOMAIN files) \cup {p} |-> IF q = p THEN b ELSE files[q]]

\* The files with path p removed.
WithoutFile(files, p) == [q \in (DOMAIN files) \ {p} |-> files[q]]

Zeros(n) == [i \in 1..n |-> 0]

\* The bytes of a file after a write of b through handle wf: an append
\* handle writes at the end of the file, any other at its cursor.
WriteBytes(old, wf, b) ==
    IF wf.append THEN old \o b
    ELSE LET pre == IF wf.pos <= Len(old) THEN SubSeq(old, 1, wf.pos)
                    ELSE old \o Zeros(wf.pos - Len(old))
         IN pre \o b \o SubSeq(old, wf.pos + Len(b) + 1, Len(old))

\* File::write_all(b) through wf: the files and the handle afterwards.
write_all(files, wf, b) ==
    LET new_bytes == WriteBytes(files[wf.path], wf, b)
    IN [fs |-> WithFile(files, wf.path, new_bytes),
        wf |-> [wf EXCEPT !.pos = IF wf.append THEN Len(new_bytes) ELSE wf.pos + Len(b)]]

(***************************************************************************)
(* The state.                                                              *)
(***************************************************************************)
VARIABLES
    dir,         \* whether the directory .veles exists
    fs,          \* the files of .veles: path -> bytes
    handle,      \* whether a VelesStore value exists (the store is open)
    cache,       \* VelesStore.cache of the open store: key -> VelesStoreEntry
    write_file,  \* VelesStore.write_file of the open store
    op,          \* the last call made and what it returned
    hist,        \* the put calls that returned Ok, in order
    fresh,       \* the keys put through the open store since it was opened
    compacts,    \* the number of compact calls so far
    faults,      \* the number of injected failures and process stops so far
    flip,        \* the bytes damaged on disk so far
    big          \* a log of large records and the replay under way over it

\* The object store (Part 2).
VARIABLES
    objects,     \* the Object values alive, by writer
    ofs,         \* the files of the object store: path -> inode and bytes
    odirs,       \* the directories created for objects
    commit,      \* the do_commit call under way, if any
    written,     \* the object writes that have ended, in order
    output       \* the file uncommit writes to (--output), if it exists

\* The manifest builder (Part 3).
VARIABLES
    man,         \* the manifest call: its position, worklist and side table
    changes,     \* the tree column of the rows of table changes, by id
    refs         \* the revision of the row 'main' of table refs, 0 for none

\* The changeset ledger and the client's submit (Part 4).
VARIABLES
    db,          \* the store file .veles/veles.db3: its schema and its rows
    dao,         \* whether a VelesDAO value exists (the ledger is open)
    inserted,    \* the ids insert_changeset has returned, in order
    index,       \* the file .veles/index
    wt,          \* the working tree: path -> bytes of the file
    sub          \* the submit call under way: its position and its locals

kv_vars == <<fs, handle, cache, write_file, hist, fresh, compacts, flip, big>>

man_vars == <<man, changes, refs>>

obj_vars == <<objects, ofs, odirs, commit, written, output>>

led_vars == <<db, dao, inserted, index, wt, sub>>

vars == <<dir, fs, handle, cache, write_file, op, hist, fresh, compacts, faults, flip, big,
          objects, ofs, odirs, commit, written, output, man, changes, refs,
          db, dao, inserted, index, wt, sub>>

EmptyFs == [q \in {} |-> <<>>]

EmptyCache == [k \in {} |-> <<>>]

\* A call and its result: kind is "Ok" or the VelesError variant returned
\* ("Panic" for a call that panics); value is the string a get returned.
Called(name, key, kind, value) == [name |-> name, key |-> key, kind |-> kind, value |-> value]

Writers == 1..MaxWriters

\* No Object value: the writer's slot is free.  context holds the bytes
\* fed to the digest, data the bytes the encoder has accepted.
NoObject ==
    [open |-> FALSE, context |-> <<>>, data |-> <<>>, ino |-> 0, pos |-> 0, header |-> FALSE]

\* No do_commit call is under way.
NoCommit == [open |-> FALSE, content |-> <<>>, id |-> <<>>, compressed |-> <<>>,
             path |-> [dir |-> "", sub |-> <<>>, name |-> <<>>]]

\* The output file of uncommit does not exist.
NoOutput == [exists |-> FALSE, bytes |-> <<>>]

\* Option::None for a hash: a hash that is there is never empty.
None == <<>>

\* No manifest call has been made.
NoManifest ==
    [pc |-> "idle", runs |-> 0, built |-> [q \in {} |-> <<>>], nodes |-> <<>>,
     order |-> <<>>, i |-> 0, hashes |-> [n \in {} |-> <<>>], ref_hash |-> <<>>,
     resolved |-> {}]

\* No file at .veles/veles.db3.
NoDb == [exists |-> FALSE, tables |-> {}, tasks |-> {}, changesets |-> {}]

\* No file at .veles/index.
NoIndex == [exists |-> FALSE, bytes |-> <<>>]

\* The paths of the working tree, as DirIterator yields them for the base
\* ".": "./a", "./b" and "./.velesignore".
PathA == <<46, 47, 97>>

PathB == <<46, 47, 98>>

IgnorePath == <<46, 47, 46, 118, 101, 108, 101, 115, 105, 103, 110, 111, 114, 101>>

\* The files of the working tree at the start: "./a" and "./b", both
\* "hi", and a .velesignore of one line, ".veles".
WorkingTree ==
    [p \in {PathA, PathB, IgnorePath} |->
        IF p = IgnorePath THEN <<46, 118, 101, 108, 101, 115, 10>> ELSE <<104, 105>>]

\* No submit call is under way.
NoSubmit ==
    [pc |-> "idle", index |-> <<>>, added |-> {}, changes |-> <<>>, writer |-> NoObject,
     path |-> <<>>, task_id |-> 0, previous |-> 0, tree |-> <<>>, tree_hash |-> <<>>,
     id |-> 0, before |-> <<>>]

\* A number of 48 bits as its low 16 bits and the rest.
Wide(hi, lo) == [hi |-> hi, lo |-> lo]

\* An empty log of large records, and no replay under way.
NoBig ==
    [log |-> <<>>, pc |-> "idle", checks |-> FALSE, cur |-> 0, pos |-> Wide(0, 0),
     cache |-> [k \in {} |-> <<>>]]

\* The state before the first call, the Object values left aside.
InitOthers ==
    /\ dir = FALSE
    /\ fs = EmptyFs
    /\ handle = FALSE
    /\ cache = EmptyCache
    /\ write_file = NoFile
    /\ op = Called("none", <<>>, "Ok", <<>>)
    /\ hist = <<>>
    /\ fresh = {}
    /\ compacts = 0
    /\ faults = 0
    /\ flip = <<>>
    /\ big = NoBig
    /\ ofs = EmptyFs
    /\ odirs = {}
    /\ commit = NoCommit
    /\ written = <<>>
    /\ output = NoOutput
    /\ man = NoManifest
    /\ changes = <<>>
    /\ refs = 0
    /\ db = NoDb
    /\ dao = FALSE
    /\ inserted = <<>>
    /\ index = NoIndex
    /\ wt = WorkingTree
    /\ sub = NoSubmit

Init == InitOthers /\ objects = [w \in Writers |-> NoObject]

\* The same with room for MaxOpen Object values.
InitWriters == InitOthers /\ objects = [w \in 1..MaxOpen |-> NoObject]

(***************************************************************************)
(* VelesStore::new: the replay of the log.                                 *)
(***************************************************************************)
VelesStoreEntry(file, total_size, file_offset) ==
    [file |-> file, total_size |-> total_size, file_offset |-> file_offset]

\* insert as it would be if an entry already in the map were kept.
insert_keeps_first(c, key, entry) ==
    [k \in (DOMAIN c) \cup {key} |-> IF k \in DOMAIN c THEN c[k] ELSE entry]

\* HashMap::insert
insert(c, key, entry) ==
    [k \in (DOMAIN c) \cup {key} |-> IF k = key THEN entry ELSE c[k]]

\* The loop `while pos != size` over the bytes of the log: cur is the
\* cursor of the read handle, pos the loop's position, c the cache so far.
\* Returns the cache of the loop's end, or the error (with the cache built
\* up to the failing record, which new drops).
RECURSIVE replay(_, _, _, _)
replay(bytes, cur, pos, c) ==
    LET size == Len(bytes) IN
    IF pos = size THEN [kind |-> "Ok", cache |-> c]
    ELSE IF size - cur < 4 THEN [kind |-> "IOError", cache |-> c]
    ELSE IF size - cur - 4 < HEADER_SIZE THEN [kind |-> "IOError", cache |-> c]
    ELSE
        LET crc == SubSeq(bytes, cur + 1, cur + 4)
            header_bytes == SubSeq(bytes, cur + 5, cur + 4 + HEADER_SIZE)
            header == deserialize(header_bytes)
            left == size - cur - 4 - HEADER_SIZE
        IN
        IF header.key_size > left THEN [kind |-> "IOError", cache |-> c]
        ELSE IF header.value_size > left - header.key_size
            THEN [kind |-> "IOError", cache |-> c]
        ELSE
            LET key_start == cur + 4 + HEADER_SIZE
                key_bytes == SubSeq(bytes, key_start + 1, key_start + header.key_size)
                value_bytes == SubSeq(bytes, key_start + header.key_size + 1,
                                      key_start + header.key_size + header.value_size)
                data == header_bytes \o key_bytes \o value_bytes
                total_size == 4 + HEADER_SIZE + header.key_size + header.value_size
            IN
            IF Crc32(data) # crc THEN [kind |-> "CorruptedData", cache |-> c]
            ELSE IF ~from_utf8_ok(key_bytes) THEN [kind |-> "Panic", cache |-> c]
            ELSE replay(bytes, cur + total_size, pos + total_size,
                        insert(c, key_bytes, VelesStoreEntry(DbPath, total_size, pos)))

\* new as it would be if a checksum mismatch ended the replay loop and the
\* cache built so far were returned.
new_serves_partial(files) ==
    IF ~Exists(files, DbPath) THEN [kind |-> "IOError", cache |-> EmptyCache]
    ELSE LET r == replay(files[DbPath], 0, 0, EmptyCache)
         IN IF r.kind = "CorruptedData" THEN [kind |-> "Ok", cache |-> r.cache]
            ELSE IF r.kind = "Ok" THEN r
            ELSE [kind |-> r.kind, cache |-> EmptyCache]

\* VelesStore::new(): the result, and the cache of the store it returns
\* when Ok.  The log is opened for reading without create, so a missing
\* file is an error; the later open for append finds the file in place.
new(files) ==
    IF ~Exists(files, DbPath) THEN [kind |-> "IOError", cache |-> EmptyCache]
    ELSE LET r == replay(files[DbPath], 0, 0, EmptyCache)
         IN IF r.kind = "Ok" THEN r ELSE [kind |-> r.kind, cache |-> EmptyCache]

(***************************************************************************)
(* VelesStore::get                                                         *)
(***************************************************************************)
Returned(kind, value) == [kind |-> kind, value |-> value]

\* get as it would be if the value were taken to start right after the
\* header, the key's length forgotten.
get_skips_key_size(c, files, key) ==
    IF key \notin DOMAIN c THEN Returned("NotFound", <<>>)
    ELSE
        LET hint == c[key] IN
        IF ~Exists(files, hint.file) THEN Returned("IOError", <<>>)
        ELSE IF hint.file_offset + hint.total_size > Len(files[hint.file])
            THEN Returned("IOError", <<>>)
        ELSE
            LET data == SubSeq(files[hint.file], hint.file_offset + 1,
                               hint.file_offset + hint.total_size)
            IN
            IF Crc32(SubSeq(data, 5, Len(data))) # SubSeq(data, 1, 4)
            THEN Returned("CorruptedData", <<>>)
            ELSE Returned("Ok", SubSeq(data, 4 + HEADER_SIZE + 1, Len(data)))

\* get as it would be if a key without an entry resolved to the empty string.
get_miss_is_empty(c, files, key) ==
    IF key \notin DOMAIN c THEN Returned("Ok", <<>>)
    ELSE
        LET hint == c[key] IN
        IF ~Exists(files, hint.file) THEN Returned("IOError", <<>>)
        ELSE IF hint.file_offset + hint.total_size > Len(files[hint.file])
            THEN Returned("IOError", <<>>)
        ELSE
            LET data == SubSeq(files[hint.file], hint.file_offset + 1,
                               hint.file_offset + hint.total_size)
                crc == SubSeq(data, 1, 4)
            IN
            IF Crc32(SubSeq(data, 5, Len(data))) # crc THEN Returned("CorruptedData", <<>>)
            ELSE
                LET header == deserialize(SubSeq(data, 5, HEADER_SIZE + 4))
                    value_offset == 4 + HEADER_SIZE + header.key_size
                IN
                IF value_offset > Len(data) THEN Returned("Panic", <<>>)
                ELSE LET value == SubSeq(data, value_offset + 1, Len(data))
                     IN IF from_utf8_ok(value) THEN Returned("Ok", value)
                        ELSE Returned("Panic", <<>>)

get(c, files, key) ==
    IF key \notin DOMAIN c THEN Returned("NotFound", <<>>)
    ELSE
        LET hint == c[key] IN
        IF ~Exists(files, hint.file) THEN Returned("IOError", <<>>)
        ELSE IF hint.file_offset + hint.total_size > Len(files[hint.file])
            THEN Returned("IOError", <<>>)
        ELSE
            LET data == SubSeq(files[hint.file], hint.file_offset + 1,
                               hint.file_offset + hint.total_size)
                crc == SubSeq(data, 1, 4)
            IN
            IF Crc32(SubSeq(data, 5, Len(data))) # crc THEN Returned("CorruptedData", <<>>)
            ELSE
                LET header == deserialize(SubSeq(data, 5, HEADER_SIZE + 4))
                    value_offset == 4 + HEADER_SIZE + header.key_size
                IN
                IF value_offset > Len(data) THEN Returned("Panic", <<>>)
                ELSE LET value == SubSeq(data, value_offset + 1, Len(data))
                     IN IF from_utf8_ok(value) THEN Returned("Ok", value)
                        ELSE Returned("Panic", <<>>)

(***************************************************************************)
(* VelesStore::put                                                         *)
(***************************************************************************)
\* The record put builds: the checksum, then header, key and value.
Record(key, value, ts) ==
    LET data == serialize(RowHeader(ts, Len(key), Len(value))) \o key \o value
    IN Crc32(data) \o data

\* The two write_all calls of put, both succeeding: the files and the
\* handle afterwards.  The cache is not touched.
put(files, wf, key, value, ts) ==
    LET rec == Record(key, value, ts)
        w1 == write_all(files, wf, SubSeq(rec, 1, 4))
    IN write_all(w1.fs, w1.wf, SubSeq(rec, 5, Len(rec)))

\* Where the next write through wf lands.
WriteOffset(files, wf) == IF wf.append THEN Len(files[wf.path]) ELSE wf.pos

(***************************************************************************)
(* The calls, as actions.                                                  *)
(***************************************************************************)
\* Something outside the store creates .veles (the repository's init does).
MkDir ==
    /\ ~dir
    /\ dir' = TRUE
    /\ op' = Called("mkdir", <<>>, "Ok", <<>>)
    /\ UNCHANGED <<fs, handle, cache, write_file, hist, fresh, compacts, faults, flip>>
    /\ UNCHANGED <<big, obj_vars, man_vars, led_vars>>

\* Something outside the store creates an empty log file.
Touch ==
    /\ ~Exists(fs, DbPath)
    /\ dir' = TRUE
    /\ fs' = WithFile(fs, DbPath, <<>>)
    /\ op' = Called("touch", <<>>, "Ok", <<>>)
    /\ UNCHANGED <<handle, cache, write_file, hist, fresh, compacts, faults, flip>>
    /\ UNCHANGED <<big, obj_vars, man_vars, led_vars>>

\* let mut veles = VelesStore::new()
New ==
    /\ ~handle
    /\ LET r == new(fs) IN
        /\ dir' = TRUE
        /\ op' = Called("new", <<>>, r.kind, <<>>)
        /\ handle' = (r.kind = "Ok")
        /\ cache' = r.cache
        /\ write_file' = IF r.kind = "Ok"
                         THEN [path |-> DbPath, pos |-> 0, append |-> TRUE]
                         ELSE NoFile
    /\ fresh' = {}
    /\ UNCHANGED <<fs, hist, compacts, faults, flip>>
    /\ UNCHANGED <<big, obj_vars, man_vars, led_vars>>

\* The store value is dropped (the process ends).
Drop ==
    /\ handle
    /\ handle' = FALSE
    /\ cache' = EmptyCache
    /\ write_file' = NoFile
    /\ fresh' = {}
    /\ op' = Called("drop", <<>>, "Ok", <<>>)
    /\ UNCHANGED <<dir, fs, hist, compacts, faults, flip>>
    /\ UNCHANGED <<big, obj_vars, man_vars, led_vars>>

\* veles.get(key)
Get(key) ==
    /\ handle
    /\ LET r == get(cache, fs, key) IN op' = Called("get", key, r.kind, r.value)
    /\ UNCHANGED <<dir, fs, handle, cache, write_file, hist, fresh, compacts, faults, flip>>
    /\ UNCHANGED <<big, obj_vars, man_vars, led_vars>>

\* veles.put(key, value), the clock reading ts
Put(key, value, ts) ==
    /\ handle
    /\ Len(hist) < MaxPuts
    /\ LET w == put(fs, write_file, key, value, ts) IN
        /\ fs' = w.fs
        /\ write_file' = w.wf
        /\ hist' = Append(hist, [key |-> key, value |-> value, ts |-> ts,
                                 path |-> write_file.path,
                                 off |-> WriteOffset(fs, write_file)])
    /\ fresh' = fresh \cup {key}
    /\ op' = Called("put", key, "Ok", <<>>)
    /\ UNCHANGED <<dir, handle, cache, compacts, faults, flip>>
    /\ UNCHANGED <<big, obj_vars, man_vars, led_vars>>

(***************************************************************************)
(* VelesStore::compact                                                     *)
(***************************************************************************)
\* The I/O call of compact that fails, if any.  The calls are numbered 1
\* (the open of the compaction file), 2i and 2i+1 (the get and the put of
\* the i-th key) and 2n+2 (the rename); a failing put has written the
\* first n bytes of its record.  at = 0: no call fails.
NoFault == [at |-> 0, n |-> 0]

\* The orders in which HashMap::keys() may yield the keys of c.
KeyOrders(c) ==
    LET n == Cardinality(DOMAIN c)
    IN {s \in [1..n -> DOMAIN c] : \A i, j \in 1..n : s[i] = s[j] => i = j}

\* A write of the first n bytes of a record, after which the call fails.
write_partial(files, wf, key, value, ts, n) ==
    write_all(files, wf, SubSeq(Record(key, value, ts), 1, n))

\* fs::rename(from, to)
rename(files, from, to) == WithoutFile(WithFile(files, to, files[from]), from)

\* The loop of compact from its i-th key on, and the rename after it.  The
\* puts of one compact read the clock within the same second: one ts.
RECURSIVE compact_from(_, _, _, _, _, _, _)
compact_from(c, files, wf, order, i, ts, fault) ==
    IF i > Len(order) THEN
        IF fault.at = 2 * Len(order) + 2
        THEN [kind |-> "IOError", fs |-> files, wf |-> wf]
        ELSE [kind |-> "Ok", fs |-> rename(files, CompactPath, DbPath),
              wf |-> [wf EXCEPT !.path = DbPath]]
    ELSE IF fault.at = 2 * i THEN [kind |-> "IOError", fs |-> files, wf |-> wf]
    ELSE
        LET r == get(c, files, order[i]) IN
        IF r.kind # "Ok" THEN [kind |-> r.kind, fs |-> files, wf |-> wf]
        ELSE IF fault.at = 2 * i + 1 THEN
            LET w == write_partial(files, wf, order[i], r.value, ts, fault.n)
            IN [kind |-> "IOError", fs |-> w.fs, wf |-> w.wf]
        ELSE
            LET w == put(files, wf, order[i], r.value, ts)
            IN compact_from(c, w.fs, w.wf, order, i + 1, ts, fault)

\* compact as it would be if its loop missed the first key.
compact_misses_first(c, files, wf, order, ts, fault) ==
    IF fault.at = 1 THEN [kind |-> "IOError", fs |-> files, wf |-> wf]
    ELSE compact_from(c,
                      IF Exists(files, CompactPath) THEN files
                      ELSE WithFile(files, CompactPath, <<>>),
                      [path |-> CompactPath, pos |-> 0, append |-> FALSE],
                      order, 2, ts, fault)

\* compact as it would be if write_file were not replaced: the records go
\* through the handle of the log.
compact_keeps_handle(c, files, wf, order, ts, fault) ==
    IF fault.at = 1 THEN [kind |-> "IOError", fs |-> files, wf |-> wf]
    ELSE compact_from(c,
                      IF Exists(files, CompactPath) THEN files
                      ELSE WithFile(files, CompactPath, <<>>),
                      wf, order, 1, ts, fault)

\* VelesStore::compact(): the result, the files and write_file afterwards.
\* The compaction file is opened with create and write, without truncate
\* or append: an existing file keeps its bytes and is written from 0.
compact(c, files, wf, order, ts, fault) ==
    IF fault.at = 1 THEN [kind |-> "IOError", fs |-> files, wf |-> wf]
    ELSE compact_from(c,
                      IF Exists(files, CompactPath) THEN files
                      ELSE WithFile(files, CompactPath, <<>>),
                      [path |-> CompactPath, pos |-> 0, append |-> FALSE],
                      order, 1, ts, fault)

\* The lengths of the prefix of a record that a put which does not finish
\* leaves behind: the checksum alone (the first of put's two write_all
\* calls), and the checksum with the header.
StopPoints == {4, 4 + HEADER_SIZE}

\* The faults that can be injected into a compact of n keys.
CompactFaults(n) ==
    {[at |-> a, n |-> 0] : a \in {1, 2 * n + 2} \cup {2 * i : i \in 1..n}}
        \cup {[at |-> 2 * i + 1, n |-> b] : i \in 1..n, b \in StopPoints}

\* veles.compact(), every I/O call succeeding
Compact(order, ts) ==
    /\ handle
    /\ compacts < MaxCompacts
    /\ LET r == compact(cache, fs, write_file, order, ts, NoFault) IN
        /\ fs' = r.fs
        /\ write_file' = r.wf
        /\ op' = Called("compact", <<>>, r.kind, <<>>)
    /\ compacts' = compacts + 1
    /\ UNCHANGED <<dir, handle, cache, hist, fresh, faults, flip>>
    /\ UNCHANGED <<big, obj_vars, man_vars, led_vars>>

\* veles.compact(), one I/O call failing
CompactFault(order, ts, fault) ==
    /\ handle
    /\ compacts < MaxCompacts
    /\ faults < MaxFaults
    /\ LET r == compact(cache, fs, write_file, order, ts, fault) IN
        /\ fs' = r.fs
        /\ write_file' = r.wf
        /\ op' = Called("compact", <<>>, r.kind, <<>>)
    /\ compacts' = compacts + 1
    /\ faults' = faults + 1
    /\ UNCHANGED <<dir, handle, cache, hist, fresh, flip>>
    /\ UNCHANGED <<big, obj_vars, man_vars, led_vars>>

\* veles.put(key, value), the process stopping when the first n bytes of
\* the record are written: the store value is gone with the process.
PutCrash(key, value, ts, n) ==
    /\ handle
    /\ Len(hist) < MaxPuts
    /\ faults < MaxFaults
    /\ fs' = write_partial(fs, write_file, key, value, ts, n).fs
    /\ handle' = FALSE
    /\ cache' = EmptyCache
    /\ write_file' = NoFile
    /\ fresh' = {}
    /\ faults' = faults + 1
    /\ op' = Called("put", key, "Crash", <<>>)
    /\ UNCHANGED <<dir, hist, compacts, flip>>
    /\ UNCHANGED <<big, obj_vars, man_vars, led_vars>>

(***************************************************************************)
(* Damage to the log from outside the store.                               *)
(***************************************************************************)
\* The field of a record that byte i (from 0) of the record belongs to.
FieldAt(i, key_size) ==
    IF i < 4 THEN "crc"
    ELSE IF i < 8 THEN "timestamp"
    ELSE IF i < 12 THEN "key_size"
    ELSE IF i < 16 THEN "value_size"
    ELSE IF i < 18 THEN "key_type"
    ELSE IF i < 20 THEN "value_type"
    ELSE IF i < 20 + key_size THEN "key"
    ELSE "value"

RecordLen(h) == 4 + HEADER_SIZE + Len(h.key) + Len(h.value)

\* Byte i (from 0) of record r of the log is changed by xor with mask.
Flip(r, i, mask) ==
    /\ Len(flip) < MaxFlips
    /\ r \in 1..Len(hist)
    /\ i \in 0..(RecordLen(hist[r]) - 1)
    /\ LET at == hist[r].off + i + 1
           old == fs[DbPath]
       IN fs' = WithFile(fs, DbPath, [old EXCEPT ![at] = XorTable[old[at]][mask]])
    /\ flip' = Append(flip, [rec |-> r, field |-> FieldAt(i, Len(hist[r].key))])
    /\ op' = Called("flip", <<>>, "Ok", <<>>)
    /\ UNCHANGED <<dir, handle, cache, write_file, hist, fresh, compacts, faults>>
    /\ UNCHANGED <<big, obj_vars, man_vars, led_vars>>

NextPut ==
    \/ MkDir
    \/ Touch
    \/ New
    \/ Drop
    \/ \E key \in Keys : Get(key)
    \/ \E key \in Keys, value \in Values, ts \in 0..MaxTime : Put(key, value, ts)

\* The store used with put and get only, every I/O call succeeding.
SpecPut == Init /\ [][NextPut]_vars

(***************************************************************************)
(* What the put calls so far have committed.                               *)
(***************************************************************************)
\* The index in hist of the last put of key, 0 when there is none.
LastPut(key) ==
    LET S == {i \in 1..Len(hist) : hist[i].key = key}
    IN IF S = {} THEN 0 ELSE CHOOSE i \in S : \A j \in S : j <= i

PutKeys == {hist[i].key : i \in 1..Len(hist)}

\* C1: a get of a key whose last put was made through an earlier store
\* value (the store was closed and opened again since, so the index comes
\* from the replay of the log) returns Ok with the value of that last put.
C1_RoundTripAfterReopen ==
    (op.name = "get" /\ op.key \in PutKeys /\ op.key \notin fresh)
        => (op.kind = "Ok" /\ op.value = hist[LastPut(op.key)].value)

\* A get after a reopen of a key put twice, with another key's put between.
C1_Witness ==
    /\ op.name = "get" /\ op.key \notin fresh
    /\ Len(hist) = 3
    /\ hist[1].key = op.key /\ hist[2].key # op.key /\ hist[3].key = op.key
    /\ hist[1].value # hist[3].value
    /\ op.kind = "Ok" /\ op.value = hist[3].value

\* C2: a get of a key put through the same store value (no reopen since)
\* returns Ok with the value of that put.
C2_ReadYourWrite ==
    (op.name = "get" /\ op.key \in fresh)
        => (op.kind = "Ok" /\ op.value = hist[LastPut(op.key)].value)

\* C3: after new returns Ok, the cache has exactly one entry per key of
\* the log, the entry of a key names the offset and the size of the last
\* record put for it, and every record ever put is still in the log at the
\* offset it was written to.
C3_LastWriteWins ==
    (op.name = "new" /\ op.kind = "Ok") =>
        /\ DOMAIN cache = PutKeys
        /\ \A k \in DOMAIN cache :
            LET h == hist[LastPut(k)] IN
            cache[k] = VelesStoreEntry(DbPath, 4 + HEADER_SIZE + Len(k) + Len(h.value), h.off)
        /\ \A i \in 1..Len(hist) :
            LET rec == Record(hist[i].key, hist[i].value, hist[i].ts)
            IN SubSeq(fs[DbPath], hist[i].off + 1, hist[i].off + Len(rec)) = rec

\* A log of three records, two of them of one key, opened.
C3_Witness ==
    /\ op.name = "new" /\ op.kind = "Ok"
    /\ Len(hist) = 3
    /\ hist[1].key = hist[3].key /\ hist[2].key # hist[1].key
    /\ Cardinality(DOMAIN cache) = 2
    /\ cache[hist[3].key].file_offset = hist[3].off
    /\ hist[3].off > hist[2].off

\* C10: new on a store whose log file does not exist creates it and
\* returns Ok with an empty cache.
C10_OpenCreatesLog ==
    [][(op'.name = "new" /\ ~handle /\ ~Exists(fs, DbPath))
          => (op'.kind = "Ok" /\ handle' /\ cache' = EmptyCache
              /\ dir' /\ Exists(fs', DbPath))]_vars

(***************************************************************************)
(* The store with compact, every I/O call succeeding.                      *)
(***************************************************************************)
Next ==
    \/ MkDir
    \/ Touch
    \/ New
    \/ Drop
    \/ \E key \in Keys : Get(key)
    \/ \E key \in Keys, value \in Values, ts \in 0..MaxTime : Put(key, value, ts)
    \/ \E order \in KeyOrders(cache), ts \in 0..MaxTime : Compact(order, ts)

Spec == Init /\ [][Next]_vars

(***************************************************************************)
(* The store with compact, and I/O calls of compact that fail.             *)
(***************************************************************************)
NextFault ==
    \/ Touch
    \/ New
    \/ Drop
    \/ \E key \in Keys : Get(key)
    \/ \E key \in Keys, value \in Values, ts \in 0..MaxTime : Put(key, value, ts)
    \/ \E order \in KeyOrders(cache), ts \in 0..MaxTime : Compact(order, ts)
    \/ \E order \in KeyOrders(cache), ts \in 0..MaxTime :
         \E fault \in CompactFaults(Len(order)) : CompactFault(order, ts, fault)

SpecFault == Init /\ [][NextFault]_vars

(***************************************************************************)
(* The store used with put and get, and a process that stops inside put.   *)
(***************************************************************************)
NextCrash ==
    \/ Touch
    \/ New
    \/ Drop
    \/ \E key \in Keys : Get(key)
    \/ \E key \in Keys, value \in Values, ts \in 0..MaxTime : Put(key, value, ts)
    \/ \E key \in Keys, value \in Values, ts \in 0..MaxTime :
         \E n \in StopPoints : PutCrash(key, value, ts, n)

SpecCrash == Init /\ [][NextCrash]_vars

(***************************************************************************)
(* The store used with put and get, and a log damaged from outside.        *)
(***************************************************************************)
NextFlip ==
    \/ Touch
    \/ New
    \/ Drop
    \/ \E key \in Keys : Get(key)
    \/ \E key \in Keys, value \in Values, ts \in 0..MaxTime : Put(key, value, ts)
    \/ \E r \in 1..MaxPuts, i \in 0..(4 + HEADER_SIZE + 4), mask \in FlipMasks : Flip(r, i, mask)

SpecFlip == Init /\ [][NextFlip]_vars

(***************************************************************************)
(* Claims on compact.                                                      *)
(***************************************************************************)
\* C4: when compact returns Ok, every key that a get on the store resolved
\* before the call resolves to the same value by a get on the same store
\* value after it.
C4_CompactKeepsReads ==
    [][(op'.name = "compact" /\ op'.kind = "Ok") =>
          \A k \in Keys :
              get(cache, fs, k).kind = "Ok" => get(cache', fs', k) = get(cache, fs, k)]_vars

\* What every key resolves to after the store is opened on files.
ReadsAfterOpen(files) ==
    LET r == new(files)
    IN [k \in Keys |-> IF r.kind = "Ok" THEN get(r.cache, files, k)
                       ELSE Returned(r.kind, <<>>)]

\* C5: after puts and a reopen (the open store has made no put and no
\* compact was called before), a compact that returns Ok leaves a log
\* from which a reopened store resolves every key as a store opened
\* before the compact did: the same keys are found, with the same values.
C5_CompactReopenKeepsReads ==
    [][(op'.name = "compact" /\ op'.kind = "Ok" /\ compacts = 0 /\ faults = 0 /\ fresh = {})
          => /\ new(fs').kind = "Ok"
             /\ ReadsAfterOpen(fs') = ReadsAfterOpen(fs)
             /\ \A k \in PutKeys :
                  ReadsAfterOpen(fs')[k] = Returned("Ok", hist[LastPut(k)].value)]_vars

\* A first compact of a log of three records for two keys, which dropped
\* the overwritten record: the log is shorter than the records put.
C5_Witness ==
    /\ op.name = "compact" /\ op.kind = "Ok" /\ compacts = 1 /\ fresh = {}
    /\ Len(hist) = 3 /\ Cardinality(PutKeys) = 2
    /\ Len(fs[DbPath]) < RecordLen(hist[1]) + RecordLen(hist[2]) + RecordLen(hist[3])
    /\ \A k \in PutKeys : ReadsAfterOpen(fs)[k] = Returned("Ok", hist[LastPut(k)].value)

\* C6: when compact returns an error, the log file holds exactly the bytes
\* it held before the call.
C6_FailedCompactKeepsLog ==
    [][(op'.name = "compact" /\ op'.kind # "Ok")
          => (Exists(fs', DbPath) /\ fs'[DbPath] = fs[DbPath])]_vars

\* A compact that failed after it had written to the compaction file.
C6_Witness ==
    /\ op.name = "compact" /\ op.kind = "IOError" /\ faults = 1
    /\ Exists(fs, CompactPath) /\ Len(fs[CompactPath]) > 4 + HEADER_SIZE
    /\ Len(fs[DbPath]) > 0
    /\ write_file.path = CompactPath

(***************************************************************************)
(* Claims on a damaged or half-written log.                                *)
(***************************************************************************)
SizeFields == {"key_size", "value_size"}

\* C7: when the replay meets a record whose stored checksum differs from
\* the recomputed one, new returns CorruptedData and no store value: no
\* cache is kept and no file is open for writing.  A record damaged in any
\* byte outside its two size fields is such a record.
C7_CorruptionAbortsOpen ==
    (op.name = "new" /\ Exists(fs, DbPath)) =>
        /\ (replay(fs[DbPath], 0, 0, EmptyCache).kind = "CorruptedData"
              => (op.kind = "CorruptedData" /\ ~handle /\ cache = EmptyCache
                  /\ write_file = NoFile))
        /\ ((Len(flip) = 1 /\ flip[1].field \notin SizeFields)
              => (op.kind = "CorruptedData" /\ ~handle /\ cache = EmptyCache))

\* An open that failed on a damaged record after it had indexed a good one.
C7_Witness ==
    /\ op.name = "new" /\ op.kind = "CorruptedData" /\ ~handle
    /\ Len(flip) = 1 /\ flip[1].rec = 2
    /\ replay(fs[DbPath], 0, 0, EmptyCache).cache # EmptyCache

\* C8: once a byte of a stored record's header, key or value is changed,
\* the next new, and the next get that reads the record, return
\* CorruptedData.
C8_FlipIsCorruption ==
    (Len(flip) = 1 /\ flip[1].field # "crc") =>
        /\ (op.name = "new" => op.kind = "CorruptedData")
        /\ (op.name = "get" /\ op.key \in DOMAIN cache
              /\ cache[op.key].file_offset = hist[flip[1].rec].off
              => op.kind = "CorruptedData")

\* C9: after a put during which the process stopped with a prefix of the
\* record written, the next new returns Ok and the store it returns
\* resolves every key to the value of the key's last finished put.
C9_OpenAfterStoppedPut ==
    [][(op.name = "put" /\ op.kind = "Crash" /\ op'.name = "new")
          => /\ op'.kind = "Ok"
             /\ \A k \in PutKeys :
                  get(cache', fs', k) = Returned("Ok", hist[LastPut(k)].value)]_vars

C12_CompactNeverGrows ==
    [][(op'.name = "compact" /\ op'.kind = "Ok")
          => Len(fs'[DbPath]) <= Len(fs[DbPath])]_vars

\* C29: a store opened after puts that returned Ok opens without error
\* and resolves every key put to the value of its last put, whatever
\* compact calls, failed ones among them, were made between the puts.
C29_PutsAreDurable ==
    (op.name = "new" /\ hist # <<>>)
        => /\ op.kind = "Ok"
           /\ \A k \in PutKeys : get(cache, fs, k) = Returned("Ok", hist[LastPut(k)].value)

\* The length of the records of the keys in S, each holding the value the
\* index c resolves the key to in files.
RECURSIVE RecordsLen(_, _, _)
RecordsLen(c, files, S) ==
    IF S = {} THEN 0
    ELSE LET k == CHOOSE x \in S : TRUE
         IN 4 + HEADER_SIZE + Len(k) + Len(get(c, files, k).value)
                + RecordsLen(c, files, S \ {k})

\* C30: when compact returns Ok, the log replays without error into an
\* index of the keys of the store's index, each resolving to the value it
\* resolved to before, and the log is as long as one record per key:
\* it holds nothing else.
C30_CompactedLogIsExact ==
    [][(op'.name = "compact" /\ op'.kind = "Ok")
          => /\ new(fs').kind = "Ok"
             /\ DOMAIN new(fs').cache = DOMAIN cache
             /\ \A k \in DOMAIN cache :
                    get(new(fs').cache, fs', k) = get(cache, fs, k)
             /\ Len(fs'[DbPath]) = RecordsLen(cache, fs, DOMAIN cache)]_vars

(***************************************************************************)
(* Part 2: the content-addressed object store.                             *)
(*                                                                         *)
(* Two writers exist in the code: the streaming Object of repo.rs (new,    *)
(* write, finalize) and do_commit of lib.rs; uncommit of lib.rs reads.     *)
(* A file of the object store is its inode and its bytes, so that a file   *)
(* put in the place of another by rename is told from the file it          *)
(* replaced, and a handle keeps naming its file after a rename.            *)
(***************************************************************************)
\* The working-tree files given to do_commit, by their bytes: "hi", "i"
\* and one byte that is not UTF-8.
Contents == {<<104, 105>>, <<105>>, <<255>>}

\* The buffers handed to Object::write: "h", "i".
Chunks == {<<104>>, <<105>>}

\* hex::encode: two lowercase hexadecimal digits per byte, as ASCII.
HexDigit(n) == IF n < 10 THEN 48 + n ELSE 87 + n

RECURSIVE encode(_)
encode(b) ==
    IF b = <<>> THEN <<>>
    ELSE <<HexDigit(Head(b) \div 16), HexDigit(Head(b) % 16)>> \o encode(Tail(b))

\* ring's SHA-256 is outside the repository.  It stands here as a digest of
\* 32 bytes that is a function of the bytes fed to the context alone, built
\* from eight CRC-32 words; the digests of the inputs of this model are
\* pairwise different in their first 20 bytes and in their first byte.
DigestWord(c, k) == Crc32(c \o <<k>>)

\* digest::Context::new(&SHA256), update(b)..., finish()
sha256(b) ==
    LET c == Crc32(b)
    IN DigestWord(c, 1) \o DigestWord(c, 2) \o DigestWord(c, 3) \o DigestWord(c, 4)
        \o DigestWord(c, 5) \o DigestWord(c, 6) \o DigestWord(c, 7) \o DigestWord(c, 8)

\* flate2's gzip stream: the 10-byte header GzBuilder writes by default
\* (no name, no mtime, unknown OS), one deflate block, and the trailer with
\* the CRC-32 and the length of the data, both little-endian.  The deflate
\* block is written here in its stored form (BFINAL = 1, BTYPE = 00, LEN,
\* the complement of LEN, the data); which block type the library picks
\* does not bear on what the repository does with the stream.
GzHeader == <<31, 139, 8, 0, 0, 0, 0, 0, 0, 255>>

deflate(b) == <<1>> \o LE16(Len(b)) \o LE16(65535 - Len(b)) \o b

GzTrailer(b) == LET c == Crc32(b) IN <<c[4], c[3], c[2], c[1]>> \o LE32(Len(b))

\* GzEncoder over a Vec: write_all(b), finish()
gzip(b) == GzHeader \o deflate(b) \o GzTrailer(b)

\* GzDecoder::read_to_end over the bytes of a file: the data of the first
\* gzip member, or an I/O error when the header, the block or the trailer
\* is cut short or does not check.  Bytes after the member are not read.
gunzip(bytes) ==
    LET bad == [kind |-> "IOError", value |-> <<>>] IN
    IF Len(bytes) < 10 THEN bad
    ELSE IF SubSeq(bytes, 1, 4) # SubSeq(GzHeader, 1, 4) THEN bad
    ELSE IF Len(bytes) < 15 THEN bad
    ELSE IF bytes[11] # 1 THEN bad
    ELSE
        LET len == bytes[12] + (bytes[13] * 256)
            nlen == bytes[14] + (bytes[15] * 256)
        IN
        IF len + nlen # 65535 THEN bad
        ELSE IF Len(bytes) < 15 + len + 8 THEN bad
        ELSE
            LET data == SubSeq(bytes, 16, 15 + len)
            IN IF SubSeq(bytes, 16 + len, 23 + len) # GzTrailer(data) THEN bad
               ELSE [kind |-> "Ok", value |-> data]

\* The paths of the object store.
VelesDir == ".veles/"

ObjectsDir == ".veles/objects/"

\* PathBuf::from(".veles/tempfile")
TempPath == [dir |-> ".veles/tempfile", sub |-> <<>>, name |-> <<>>]

\* PathBuf::from(root).join(&hex[..2])
SubDir(root, hex) == [dir |-> root, sub |-> SubSeq(hex, 1, 2)]

\* PathBuf::from(root).join(&hex[..2]).join(&hex[2..n])
ObjectPath(root, hex, n) ==
    [dir |-> root, sub |-> SubSeq(hex, 1, 2), name |-> SubSeq(hex, 3, n)]

File(ino, bytes) == [ino |-> ino, bytes |-> bytes]

\* The inode a newly created file gets: one that no path and no open
\* handle names.
FreshIno(files, objs) ==
    LET used == {files[p].ino : p \in DOMAIN files}
                    \cup {objs[w].ino : w \in {v \in DOMAIN objs : objs[v].open}}
    IN CHOOSE n \in 1..(Cardinality(used) + 1) : n \notin used

\* A write of b at offset pos through a handle on inode ino.  A file that
\* no path names any more takes the bytes with it.
WriteIno(files, ino, pos, b) ==
    [p \in DOMAIN files |->
        IF files[p].ino = ino
        THEN File(ino, WriteBytes(files[p].bytes, [pos |-> pos, append |-> FALSE], b))
        ELSE files[p]]

\* Object::new(): the temporary file is opened with write and create,
\* without truncate: a file already there keeps its inode and its bytes.
Object_new(files, ino) ==
    LET files1 == IF Exists(files, TempPath) THEN files
                  ELSE WithFile(files, TempPath, File(ino, <<>>))
    IN [fs |-> files1,
        object |-> [open |-> TRUE, context |-> <<>>, data |-> <<>>,
                    ino |-> files1[TempPath].ino, pos |-> 0, header |-> FALSE]]

\* <Object as Write>::write as it would be with the whole buffer fed to
\* the digest whatever the encoder accepted.
write_updates_all(files, o, buf, len) ==
    LET h == IF o.header THEN <<>> ELSE GzHeader
    IN [fs |-> WriteIno(files, o.ino, o.pos, h),
        object |-> [o EXCEPT !.data = @ \o SubSeq(buf, 1, len), !.context = @ \o buf,
                             !.pos = @ + Len(h), !.header = TRUE],
        value |-> len]

\* <Object as Write>::write(buf), one call in which the encoder accepts the
\* first len bytes of buf: GzEncoder::write puts the gzip header in the
\* file before the first data and keeps the deflate output in its buffer;
\* the bytes it accepted are fed to the digest context, and their count
\* is returned.
write(files, o, buf, len) ==
    LET h == IF o.header THEN <<>> ELSE GzHeader
    IN [fs |-> WriteIno(files, o.ino, o.pos, h),
        object |-> [o EXCEPT !.data = @ \o SubSeq(buf, 1, len),
                             !.context = @ \o SubSeq(buf, 1, len),
                             !.pos = @ + Len(h), !.header = TRUE],
        value |-> len]

\* writer.write_all(buf), and std::io::copy: write is called on what is
\* left of the buffer until the encoder has accepted all of it.
Object_write(files, o, buf) ==
    LET r == write(files, o, buf, Len(buf)) IN [fs |-> r.fs, object |-> r.object]

\* GzEncoder::finish (and the encoder's Drop): what is left of the stream
\* goes to the file.
finish(files, o) ==
    LET h == IF o.header THEN <<>> ELSE GzHeader
    IN WriteIno(files, o.ino, o.pos, h \o deflate(o.data) \o GzTrailer(o.data))

\* <Object as Finalize>::finalize(): the result, the files and the
\* directories afterwards.  No test is made for a file at new_file_path;
\* the id returned is the whole hex digest.
finalize_rename(files1, dirs, hex_digest) ==
    IF ~Exists(files1, TempPath)
    THEN [kind |-> "IOError", fs |-> files1,
          dirs |-> dirs \cup {SubDir(ObjectsDir, hex_digest)}, id |-> <<>>]
    ELSE [kind |-> "Ok",
          fs |-> rename(files1, TempPath, ObjectPath(ObjectsDir, hex_digest, 40)),
          dirs |-> dirs \cup {SubDir(ObjectsDir, hex_digest)}, id |-> hex_digest]

finalize(files, dirs, o) ==
    finalize_rename(finish(files, o), dirs, encode(sha256(o.context)))

\* do_commit up to its write_all: the digest, the compressed body, the
\* directory, and the object file created empty when none is there.
do_commit_create(files, b, ino, hex_digest) ==
    LET new_file_path == ObjectPath(VelesDir, hex_digest, 40)
        there == Exists(files, new_file_path)
    IN [there |-> there,
        fs |-> IF there THEN files ELSE WithFile(files, new_file_path, File(ino, <<>>)),
        path |-> new_file_path,
        dir |-> SubDir(VelesDir, hex_digest),
        compressed |-> gzip(b),
        id |-> SubSeq(hex_digest, 1, 40)]

do_commit_open(files, b, ino) == do_commit_create(files, b, ino, encode(sha256(b)))

\* new_file.write_all(&compressed) of do_commit
do_commit_write(files, path, compressed) ==
    WithFile(files, path, File(files[path].ino,
                               WriteBytes(files[path].bytes,
                                          [pos |-> 0, append |-> FALSE], compressed)))

\* do_commit(file), the file read holding b and every call succeeding.
do_commit_rest(c) ==
    [fs |-> IF c.there THEN c.fs ELSE do_commit_write(c.fs, c.path, c.compressed),
     dir |-> c.dir, id |-> c.id]

do_commit(files, b, ino) == do_commit_rest(do_commit_open(files, b, ino))

\* uncommit(hash, _) up to buf: the bytes read back.
uncommit(files, hash) ==
    IF Len(hash) < 2 THEN [kind |-> "Panic", value |-> <<>>]
    ELSE LET file_path == ObjectPath(VelesDir, hash, Len(hash))
         IN IF ~Exists(files, file_path) THEN [kind |-> "IOError", value |-> <<>>]
            ELSE gunzip(files[file_path].bytes)

(***************************************************************************)
(* The calls of the object store, as actions.                              *)
(***************************************************************************)
\* The object writes begun so far.
Begun ==
    Len(written) + Cardinality({w \in DOMAIN objects : objects[w].open})
        + (IF commit.open THEN 1 ELSE 0)

Wrote(via, content, kind, id) == [via |-> via, content |-> content, kind |-> kind, id |-> id]

\* let mut writer = transport.send_object()?   (Object::new)
ObjectNew(w) ==
    /\ ~objects[w].open
    /\ Begun < MaxObjects
    /\ IF ~dir
       THEN /\ op' = Called("Object::new", <<>>, "IOError", <<>>)
            /\ UNCHANGED <<objects, ofs>>
       ELSE LET r == Object_new(ofs, FreshIno(ofs, objects)) IN
            /\ ofs' = r.fs
            /\ objects' = [objects EXCEPT ![w] = r.object]
            /\ op' = Called("Object::new", <<>>, "Ok", <<>>)
    /\ UNCHANGED <<dir, faults, odirs, commit, written, output>>
    /\ UNCHANGED <<kv_vars, man_vars, led_vars>>

\* writer.write_all(buf), as std::io::copy calls it
ObjectWrite(w, buf) ==
    /\ objects[w].open
    /\ Len(objects[w].context) + Len(buf) <= MaxLen
    /\ LET r == Object_write(ofs, objects[w], buf) IN
        /\ ofs' = r.fs
        /\ objects' = [objects EXCEPT ![w] = r.object]
    /\ op' = Called("write", buf, "Ok", <<>>)
    /\ UNCHANGED <<dir, faults, odirs, commit, written, output>>
    /\ UNCHANGED <<kv_vars, man_vars, led_vars>>

\* The buffers handed to single calls of write: "h", "i" and "hi".
WriteBufs == Chunks \cup {<<104, 105>>}

\* writer.write(buf), one call; the encoder accepts the first len bytes
ObjectWriteCall(w, buf, len) ==
    /\ objects[w].open
    /\ len <= Len(buf)
    /\ Len(objects[w].context) + Len(buf) <= MaxLen
    /\ LET r == write(ofs, objects[w], buf, len) IN
        /\ ofs' = r.fs
        /\ objects' = [objects EXCEPT ![w] = r.object]
        /\ op' = Called("write", buf, "Ok", r.value)
    /\ UNCHANGED <<dir, faults, odirs, commit, written, output>>
    /\ UNCHANGED <<kv_vars, man_vars, led_vars>>

\* writer.finalize()
ObjectFinalize(w) ==
    /\ objects[w].open
    /\ \E r \in {finalize(ofs, odirs, objects[w])} :
        /\ ofs' = r.fs
        /\ odirs' = r.dirs
        /\ written' = Append(written, Wrote("finalize", objects[w].context, r.kind, r.id))
        /\ op' = Called("finalize", objects[w].context, r.kind, r.id)
    /\ objects' = [objects EXCEPT ![w] = NoObject]
    /\ UNCHANGED <<dir, faults, commit, output>>
    /\ UNCHANGED <<kv_vars, man_vars, led_vars>>

\* The writer is dropped without finalize (an error of the copy returns
\* from submit): the encoder's Drop ends the stream in the temporary file,
\* which stays.
ObjectDrop(w) ==
    /\ objects[w].open
    /\ ofs' = finish(ofs, objects[w])
    /\ written' = Append(written, Wrote("drop", objects[w].context, "Ok", <<>>))
    /\ objects' = [objects EXCEPT ![w] = NoObject]
    /\ op' = Called("drop", objects[w].context, "Ok", <<>>)
    /\ UNCHANGED <<dir, faults, odirs, commit, output>>
    /\ UNCHANGED <<kv_vars, man_vars, led_vars>>

\* do_commit(file) up to the open of the object file; it returns here
\* when the object file is already there.
DoCommit(b) ==
    /\ ~commit.open
    /\ Begun < MaxObjects
    /\ \E c \in {do_commit_open(ofs, b, FreshIno(ofs, objects))} :
        /\ ofs' = c.fs
        /\ odirs' = odirs \cup {c.dir}
        /\ IF c.there
           THEN /\ commit' = NoCommit
                /\ written' = Append(written, Wrote("do_commit", b, "Ok", c.id))
                /\ op' = Called("do_commit", b, "Ok", c.id)
           ELSE /\ commit' = [open |-> TRUE, content |-> b, id |-> c.id,
                              compressed |-> c.compressed, path |-> c.path]
                /\ written' = written
                /\ op' = Called("do_commit", b, "Open", <<>>)
    /\ dir' = TRUE
    /\ UNCHANGED <<faults, objects, output>>
    /\ UNCHANGED <<kv_vars, man_vars, led_vars>>

\* The rest of do_commit: write_all and the return of the id.
DoCommitWrite ==
    /\ commit.open
    /\ ofs' = do_commit_write(ofs, commit.path, commit.compressed)
    /\ written' = Append(written, Wrote("do_commit", commit.content, "Ok", commit.id))
    /\ op' = Called("do_commit", commit.content, "Ok", commit.id)
    /\ commit' = NoCommit
    /\ UNCHANGED <<dir, faults, objects, odirs, output>>
    /\ UNCHANGED <<kv_vars, man_vars, led_vars>>

\* The process stops between the open and the write_all of do_commit.
DoCommitStop ==
    /\ commit.open
    /\ faults < MaxFaults
    /\ faults' = faults + 1
    /\ written' = Append(written, Wrote("stop", commit.content, "Crash", <<>>))
    /\ op' = Called("do_commit", commit.content, "Crash", <<>>)
    /\ commit' = NoCommit
    /\ UNCHANGED <<dir, objects, ofs, odirs, output>>
    /\ UNCHANGED <<kv_vars, man_vars, led_vars>>

\* The ids the calls so far have returned, and their first 40 digits.
Ids ==
    LET got == {written[i].id : i \in {j \in 1..Len(written) : written[j].id # <<>>}}
    IN got \cup {SubSeq(id, 1, 40) : id \in got}

\* uncommit(hash, output): with an output path the bytes are written to
\* that file, opened with create and write and not truncated; without
\* one they are printed.
Uncommit(hash, out) ==
    /\ ~commit.open
    /\ LET r == uncommit(ofs, hash) IN
        /\ op' = Called("uncommit", hash, r.kind, r.value)
        /\ output' = IF out /\ r.kind = "Ok"
                     THEN [exists |-> TRUE,
                           bytes |-> WriteBytes(output.bytes, [pos |-> 0, append |-> FALSE],
                                                r.value)]
                     ELSE output
    /\ UNCHANGED <<dir, faults, objects, ofs, odirs, commit, written>>
    /\ UNCHANGED <<kv_vars, man_vars, led_vars>>

NextObject ==
    \/ MkDir
    \/ \E w \in Writers : ObjectNew(w)
    \/ \E w \in Writers, buf \in Chunks : ObjectWrite(w, buf)
    \/ \E w \in Writers : ObjectFinalize(w)
    \/ \E w \in Writers : ObjectDrop(w)
    \/ \E b \in Contents : DoCommit(b)
    \/ DoCommitWrite
    \/ DoCommitStop
    \/ \E hash \in Ids, out \in BOOLEAN : Uncommit(hash, out)

\* The object store used by one process at a time.
SpecObject == Init /\ [][NextObject]_vars

NextWriters ==
    \/ MkDir
    \/ \E w \in 1..MaxOpen : ObjectNew(w)
    \/ \E w \in 1..MaxOpen, buf \in Chunks : ObjectWrite(w, buf)
    \/ \E w \in 1..MaxOpen : ObjectFinalize(w)
    \/ \E w \in 1..MaxOpen : ObjectDrop(w)

\* Object writers of one repository, their calls interleaved.
SpecWriters == InitWriters /\ [][NextWriters]_vars

(***************************************************************************)
(* Claims on the object store.                                             *)
(***************************************************************************)
\* The object files: every file of the store but the temporary one.
ObjectFiles(files) == [p \in (DOMAIN files) \ {TempPath} |-> files[p]]

\* The writes of content b through writer via that returned Ok so far.
OkWrites(via, b) ==
    {i \in 1..Len(written) :
        written[i].via = via /\ written[i].kind = "Ok" /\ written[i].content = b}

\* C13: when a write of some content returns Ok after an earlier write of
\* the same content through the same writer (finalize or do_commit)
\* returned Ok, it returns the id the earlier one returned, and the step
\* that returns leaves every object file as it was: the same inode with the
\* same bytes at every path.
C13_SecondWriteIsNoOp ==
    [][(op'.name \in {"finalize", "do_commit"} /\ op'.kind = "Ok"
          /\ OkWrites(op'.name, op'.key) # {})
          => /\ \A i \in OkWrites(op'.name, op'.key) : written[i].id = op'.value
             /\ ObjectFiles(ofs') = ObjectFiles(ofs)]_vars

\* C14: an object file, once at its path, stays there with the bytes it
\* has.  The file a do_commit call under way has created and not yet
\* written is not counted as an object before the call's write.
C14_ObjectsAreWriteOnce ==
    [][\A p \in DOMAIN ObjectFiles(ofs) :
          (commit.open /\ p = commit.path)
              \/ (Exists(ofs', p) /\ ofs'[p].bytes = ofs[p].bytes)]_vars

\* Whether the file at path p holds a whole gzip stream whose data has the
\* digest that p is named after.
WholeObject(files, p) ==
    LET r == gunzip(files[p].bytes)
    IN /\ r.kind = "Ok"
       /\ p.sub = SubSeq(encode(sha256(r.value)), 1, 2)
       /\ p.name = SubSeq(encode(sha256(r.value)), 3, 40)

\* C15: in every state, the points between the steps of a write included,
\* every file at the path of an object holds the whole compressed body of
\* the content the path is named after.
C15_NoPartialObject == \A p \in DOMAIN ObjectFiles(ofs) : WholeObject(ofs, p)

\* C16: uncommit of an id that a write (finalize or do_commit) of content b
\* returned gives back exactly b.
C16_WriteReadRoundTrip ==
    (op.name = "uncommit") =>
        \A i \in 1..Len(written) :
            (written[i].kind = "Ok" /\ written[i].id = op.key)
                => (op.kind = "Ok" /\ op.value = written[i].content)

\* C17: the id finalize returns has exactly 40 characters, which are the
\* first 40 hexadecimal digits of the SHA-256 digest of the bytes written,
\* and it is the id do_commit returns for a file holding the same bytes.
C17_FinalizeReturnsShortId ==
    (op.name = "finalize" /\ op.kind = "Ok") =>
        /\ Len(op.value) = 40
        /\ op.value = SubSeq(encode(sha256(op.key)), 1, 40)
        /\ op.value = do_commit(ofs, op.key, 0).id

\* One writer at a time, written to by single calls of write.
NextWrite ==
    \/ MkDir
    \/ \E w \in Writers : ObjectNew(w)
    \/ \E w \in Writers, buf \in WriteBufs, len \in 1..MaxLen : ObjectWriteCall(w, buf, len)
    \/ \E w \in Writers : ObjectFinalize(w)
    \/ \E w \in Writers : ObjectDrop(w)

SpecWrite == Init /\ [][NextWrite]_vars

\* C38: a call of write that returns Ok(n) on a buffer appends the first n
\* bytes of the buffer both to the bytes fed to the digest and to the
\* bytes the encoder has accepted, so that the two are the same after
\* every call; and the id a finalize returns is the digest of the bytes
\* the encoder accepted, which are the bytes of the stream it stores.
C38_DigestSeesWhatIsStored ==
    [][/\ (op'.name = "write" /\ op'.kind = "Ok")
              => \A w \in Writers :
                     (objects'[w] # objects[w])
                         => LET taken == SubSeq(op'.key, 1, op'.value)
                            IN /\ objects'[w].context = objects[w].context \o taken
                               /\ objects'[w].data = objects[w].data \o taken
       /\ \A w \in Writers : objects'[w].context = objects'[w].data
       /\ (op'.name = "finalize" /\ op'.kind = "Ok")
              => \A w \in Writers :
                     (objects[w].open /\ ~objects'[w].open)
                         => op'.value = encode(sha256(objects[w].data))]_vars

\* A writer was given "hi" in a call of write that took "h" alone and
\* returned 1.
C38_Witness ==
    /\ op.name = "write" /\ op.kind = "Ok"
    /\ op.key = <<104, 105>> /\ op.value = 1
    /\ \E w \in Writers :
           /\ objects[w].open
           /\ objects[w].context = <<104>>
           /\ objects[w].data = <<104>>

\* C31: whenever finalize has returned Ok for a writer, with writers
\* interleaved or abandoned before it, the object file at the path of the
\* id it returned decompresses to the bytes written to that writer, and
\* the id is the digest of those bytes.
C31_WritersAreIsolated ==
    \A i \in 1..Len(written) :
        (written[i].via = "finalize" /\ written[i].kind = "Ok")
            => LET p == ObjectPath(ObjectsDir, written[i].id, 40)
               IN /\ written[i].id = encode(sha256(written[i].content))
                  /\ Exists(ofs, p)
                  /\ gunzip(ofs[p].bytes) = [kind |-> "Ok", value |-> written[i].content]

(***************************************************************************)
(* Part 3: the manifest builder.                                           *)
(*                                                                         *)
(* A path is the sequence of its components below the base directory "."   *)
(* (<<>> is "." itself); a name is its bytes.  A working tree maps each    *)
(* path in it to what is found there: a directory, a regular file with its *)
(* bytes, or something that is neither for Path::is_dir and Path::is_file  *)
(* (a symbolic link whose target is missing, a FIFO, a socket).            *)
(***************************************************************************)
Entry(kind, content) == [kind |-> kind, content |-> content]

IsDir == Entry("dir", <<>>)

IsFile(b) == Entry("file", b)

\* A symbolic link to a path that does not exist.
IsOther == Entry("other", <<>>)

\* The working trees of the model, with the names a, b, e, f, g, l, v, x:
\*   1  no entry at all
\*   2  ./f
\*   3  ./a/f  ./g
\*   4  ./a/x/f  ./b/x/f, the two files differing (two directories named x)
\*   5  ./a/l, a dangling link
\*   6  ./e, an empty directory, and ./v/f, which the ignore file excludes
\*   7  ./a/x/f  ./x/g  (a directory named as a directory inside another)
Trees ==
    << [q \in {} |-> IsDir],
       (<< <<102>> >> :> IsFile(<<104, 105>>)),
       (<< <<97>> >> :> IsDir) @@ (<< <<97>>, <<102>> >> :> IsFile(<<105>>))
           @@ (<< <<103>> >> :> IsFile(<<104, 105>>)),
       (<< <<97>> >> :> IsDir) @@ (<< <<97>>, <<120>> >> :> IsDir)
           @@ (<< <<97>>, <<120>>, <<102>> >> :> IsFile(<<105>>))
           @@ (<< <<98>> >> :> IsDir) @@ (<< <<98>>, <<120>> >> :> IsDir)
           @@ (<< <<98>>, <<120>>, <<102>> >> :> IsFile(<<104, 105>>)),
       (<< <<97>> >> :> IsDir) @@ (<< <<97>>, <<108>> >> :> IsOther),
       (<< <<101>> >> :> IsDir) @@ (<< <<118>> >> :> IsDir)
           @@ (<< <<118>>, <<102>> >> :> IsFile(<<105>>)),
       (<< <<97>> >> :> IsDir) @@ (<< <<97>>, <<120>> >> :> IsDir)
           @@ (<< <<97>>, <<120>>, <<102>> >> :> IsFile(<<105>>))
           @@ (<< <<120>> >> :> IsDir)
           @@ (<< <<120>>, <<103>> >> :> IsFile(<<104, 105>>)) >>

\* The lines of .velesignore, joined to the base path: ./v
Ignored == {<< <<118>> >>}

\* Path::is_dir, Path::is_file
is_dir(tree, path) == path = <<>> \/ (path \in DOMAIN tree /\ tree[path].kind = "dir")

is_file(tree, path) == path \in DOMAIN tree /\ tree[path].kind = "file"

\* Path::starts_with
starts_with(path, p) == Len(p) <= Len(path) /\ SubSeq(path, 1, Len(p)) = p

\* Path::parent of a path of the listing, and Path::file_name
parent(path) == SubSeq(path, 1, Len(path) - 1)

file_name(path) == path[Len(path)]

\* parent.file_name().unwrap_or_default(): "." has no file name
file_name_or_default(path) == IF path = <<>> THEN <<>> ELSE file_name(path)

\* The paths of S by the first byte of their names, ascending or (rev)
\* descending.
RECURSIVE SortPaths(_, _)
SortPaths(S, rev) ==
    IF S = {} THEN <<>>
    ELSE LET m == CHOOSE p \in S : \A q \in S :
                      IF rev THEN file_name(q)[1] <= file_name(p)[1]
                      ELSE file_name(p)[1] <= file_name(q)[1]
         IN <<m>> \o SortPaths(S \ {m}, rev)

\* fs::read_dir(path): the entries of the directory, in one of the orders
\* the file system may yield them in.
read_dir(tree, path, rev) ==
    SortPaths({q \in DOMAIN tree : Len(q) = Len(path) + 1 /\ parent(q) = path}, rev)

\* DirIterator::visit as it would be with the push of a directory after
\* the visit of what is inside it.
RECURSIVE visit_dir_after(_, _, _, _, _, _)
visit_dir_after(tree, entries, k, filter, include_dirs, rev) ==
    IF k > Len(entries) THEN <<>>
    ELSE
        LET path == entries[k]
            pushed ==
                IF \E p \in filter : starts_with(path, p) THEN <<>>
                ELSE IF is_dir(tree, path)
                    THEN visit_dir_after(tree, read_dir(tree, path, rev), 1, filter,
                                         include_dirs, rev)
                             \o (IF include_dirs THEN <<path>> ELSE <<>>)
                ELSE <<path>>
        IN pushed \o visit_dir_after(tree, entries, k + 1, filter, include_dirs, rev)

\* DirIterator::visit: the paths pushed on the stack for the entries from
\* the k-th on of a directory, a directory before what is inside it.
RECURSIVE visit(_, _, _, _, _, _)
visit(tree, entries, k, filter, include_dirs, rev) ==
    IF k > Len(entries) THEN <<>>
    ELSE
        LET path == entries[k]
            pushed ==
                IF \E p \in filter : starts_with(path, p) THEN <<>>
                ELSE IF is_dir(tree, path)
                    THEN (IF include_dirs THEN <<path>> ELSE <<>>)
                             \o visit(tree, read_dir(tree, path, rev), 1, filter,
                                      include_dirs, rev)
                ELSE <<path>>
        IN pushed \o visit(tree, entries, k + 1, filter, include_dirs, rev)

\* DirIterator::from_ignorefile(".", ".velesignore", include_dirs), iterated
from_ignorefile(tree, filter, include_dirs, rev) ==
    visit(tree, read_dir(tree, <<>>, rev), 1, filter, include_dirs, rev)

VelesNode(name, items, hash) == [name |-> name, items |-> items, hash |-> hash]

\* let hash = Some(do_commit(path.clone())?): the hash of a file of the
\* listing, with the object files and directories do_commit leaves.
build_hash(c, dirs) == [hash |-> c.id, fs |-> c.fs, dirs |-> dirs \cup {c.dir}]

\* The first loop of manifest from the k-th path of the listing on: the
\* map of nodes, and the object files do_commit has written.
RECURSIVE build(_, _, _, _, _, _, _)
RECURSIVE build_push(_, _, _, _, _, _)
build(tree, listing, k, nodes, files, dirs, objs) ==
    IF k > Len(listing) THEN [nodes |-> nodes, fs |-> files, dirs |-> dirs]
    ELSE
        LET path == listing[k]
            nodes1 == IF is_dir(tree, path)
                      THEN insert(nodes, path, VelesNode(file_name(path), <<>>, None))
                      ELSE nodes
            nodes2 == IF parent(path) \in DOMAIN nodes1 THEN nodes1
                      ELSE insert(nodes1, parent(path),
                                  VelesNode(file_name_or_default(parent(path)), <<>>, None))
        IN IF is_file(tree, path)
           THEN build_push(tree, listing, k, nodes2, objs,
                           build_hash(do_commit(files, tree[path].content,
                                                FreshIno(files, objs)), dirs))
           ELSE build_push(tree, listing, k, nodes2, objs,
                           [hash |-> None, fs |-> files, dirs |-> dirs])

\* node.items.push(VelesNode { name, items, hash }) for the k-th path, and
\* the loop from the next path on.
build_push(tree, listing, k, nodes2, objs, r) ==
    build(tree, listing, k + 1,
          [nodes2 EXCEPT ![parent(listing[k])].items =
              Append(@, VelesNode(file_name(listing[k]), <<>>, r.hash))],
          r.fs, r.dirs, objs)

\* node.items.iter().all(|n| n.hash.is_some() || hashes.contains_key(&n.name))
ready(node, hashes) ==
    \A k \in 1..Len(node.items) :
        node.items[k].hash # None \/ node.items[k].name \in DOMAIN hashes

\* The string built for a node from its k-th item on: one line
\* "<hash> <name>\n" per item.
RECURSIVE contents(_, _, _)
contents(node, hashes, k) ==
    IF k > Len(node.items) THEN <<>>
    ELSE LET item == node.items[k]
             item_hash == IF item.hash # None THEN item.hash ELSE hashes[item.name]
         IN item_hash \o <<32>> \o item.name \o <<10>> \o contents(node, hashes, k + 1)

\* Vec::remove(i), i counted from 0
remove(v, i) == SubSeq(v, 1, i) \o SubSeq(v, i + 2, Len(v))

\* One turn of the loop `while nodes.len() > 0` of manifest.  m.order holds
\* the path of each node of the worklist and m.resolved the paths of the
\* nodes removed; the code keeps neither.
step(m) ==
    LET node == m.nodes[m.i + 1] IN
    IF ready(node, m.hashes) THEN
        LET hex_digest == encode(sha256(contents(node, m.hashes, 1)))
            nodes1 == remove(m.nodes, m.i)
        IN [m EXCEPT !.hashes = insert(m.hashes, node.name, SubSeq(hex_digest, 1, 40)),
                     !.nodes = nodes1,
                     !.order = remove(m.order, m.i),
                     !.resolved = @ \cup {m.order[m.i + 1]},
                     !.ref_hash = IF Len(nodes1) = 0 THEN SubSeq(hex_digest, 1, 40) ELSE @,
                     !.i = IF m.i = Len(nodes1) THEN 0 ELSE m.i]
    ELSE [m EXCEPT !.i = IF m.i + 1 = Len(m.nodes) THEN 0 ELSE m.i + 1]

\* The manifest call at the head of its second loop: the nodes of the
\* map, collected in the given order of their paths.
worklist(runs, nodes, order) ==
    [pc |-> "loop", runs |-> runs, built |-> nodes,
     nodes |-> [k \in 1..Len(order) |-> nodes[order[k]]],
     order |-> order, i |-> 0, hashes |-> [n \in {} |-> <<>>], ref_hash |-> <<>>,
     resolved |-> {}]

\* The id of the first row of changes whose tree is hash.
RowOfTree(rows, hash) == CHOOSE id \in 1..Len(rows) : rows[id] = hash /\ \A j \in 1..(id - 1) : rows[j] # hash

(***************************************************************************)
(* The manifest call, as actions: the walk and the build of the node map,  *)
(* each turn of the worklist loop, and the update of the database.         *)
(***************************************************************************)
\* manifest() on working tree t, down to the head of the worklist loop.
\* HashMap::into_values yields the nodes in any order.
Manifest(t, rev) ==
    /\ man.pc # "loop"
    /\ man.runs < MaxManifests
    /\ \E b \in {build(Trees[t], from_ignorefile(Trees[t], Ignored, TRUE, rev), 1,
                        [q \in {} |-> <<>>], ofs, odirs, objects)} :
          /\ \E order \in KeyOrders(b.nodes) : man' = worklist(man.runs + 1, b.nodes, order)
          /\ ofs' = b.fs
          /\ odirs' = b.dirs
          /\ dir' = (dir \/ b.dirs # {})
    /\ op' = Called("manifest", <<>>, "Loop", <<>>)
    /\ UNCHANGED <<faults, objects, commit, written, output, changes, refs>>
    /\ UNCHANGED <<kv_vars, led_vars>>

\* One turn of the worklist loop.
ManifestStep ==
    /\ man.pc = "loop"
    /\ Len(man.nodes) > 0
    /\ man' = step(man)
    /\ op' = Called("manifest", <<>>, "Loop", <<>>)
    /\ UNCHANGED <<dir, faults, changes, refs>>
    /\ UNCHANGED <<kv_vars, obj_vars, led_vars>>

\* The worklist is empty: the root hash is inserted into changes and
\* 'main' is set to the id selected for it.  Connection::open fails when
\* .veles does not exist.
ManifestEnd ==
    /\ man.pc = "loop"
    /\ Len(man.nodes) = 0
    /\ IF ~dir
       THEN /\ man' = [man EXCEPT !.pc = "failed"]
            /\ op' = Called("manifest", <<>>, "DBError", <<>>)
            /\ UNCHANGED <<changes, refs>>
       ELSE /\ man' = [man EXCEPT !.pc = "done"]
            /\ changes' = Append(changes, man.ref_hash)
            /\ refs' = RowOfTree(changes', man.ref_hash)
            /\ op' = Called("manifest", <<>>, "Ok", man.ref_hash)
    /\ UNCHANGED <<dir, faults>>
    /\ UNCHANGED <<kv_vars, obj_vars, led_vars>>

NextManifest ==
    \/ MkDir
    \/ \E t \in 1..Len(Trees), rev \in BOOLEAN : Manifest(t, rev)
    \/ ManifestStep
    \/ ManifestEnd

SpecManifest == Init /\ [][NextManifest]_vars

(***************************************************************************)
(* Claims on the manifest builder.                                         *)
(***************************************************************************)
\* C18: a turn of the worklist loop that computes the hash of a directory
\* node (and removes the node) finds every child of the node with a hash:
\* a child attached without a hash is a subdirectory whose own node was
\* removed from the worklist at an earlier turn.
C18_HashAfterChildren ==
    [][(man.pc = "loop" /\ man'.pc = "loop" /\ Len(man'.nodes) < Len(man.nodes))
          => LET node == man.nodes[man.i + 1]
                 path == man.order[man.i + 1]
             IN \A k \in 1..Len(node.items) :
                    node.items[k].hash # None
                        \/ (path \o <<node.items[k].name>>) \in man.resolved]_vars

\* C19: the worklist loop ends with an empty worklist because every pass
\* over the nodes that remain finds a node that is ready: whenever the
\* loop holds nodes, one of them has all its children hashed or resolved.
\* A worklist without a ready node stays as it is, since a turn at a node
\* that is not ready changes nothing but i.
C19_EveryPassFindsReady ==
    (man.pc = "loop" /\ Len(man.nodes) > 0)
        => \E k \in 1..Len(man.nodes) : ready(man.nodes[k], man.hashes)

\* The root hash of the worklist loop run from its head to its end, at
\* most fuel turns of it.
RECURSIVE ref_hash_of(_, _)
ref_hash_of(m, fuel) ==
    IF Len(m.nodes) = 0 \/ fuel = 0 THEN m.ref_hash ELSE ref_hash_of(step(m), fuel - 1)

\* The turns within which a loop over n nodes that ends has ended.
Turns(n) == n * (n + 1)

\* C20: the root hash of a manifest call that has ended is the root hash
\* the loop arrives at from every order in which the nodes of the same map
\* may be collected into the worklist.
C20_RootHashAnyOrder ==
    (man.pc \in {"done", "failed"}) =>
        \A order \in KeyOrders(man.built) :
            ref_hash_of(worklist(man.runs, man.built, order),
                        Turns(Len(order))) = man.ref_hash

\* The hash of the directory at path computed from its own content lines
\* in the node map: one line per item in attachment order, a file with the
\* hash attached to it and a subdirectory with the hash of the node at its
\* own path.
RECURSIVE dir_hash(_, _)
RECURSIVE tree_contents(_, _, _)
dir_hash(built, path) == SubSeq(encode(sha256(tree_contents(built, path, 1))), 1, 40)

tree_contents(built, path, k) ==
    IF k > Len(built[path].items) THEN <<>>
    ELSE LET item == built[path].items[k]
             item_hash == IF item.hash # None THEN item.hash
                          ELSE IF (path \o <<item.name>>) \in DOMAIN built
                              THEN dir_hash(built, path \o <<item.name>>)
                          ELSE <<>>
         IN item_hash \o <<32>> \o item.name \o <<10>> \o tree_contents(built, path, k + 1)

\* C32: a turn of the worklist loop that hashes a directory node writes,
\* in the line of each child subdirectory, the hash computed from the
\* content lines of that same subdirectory (the node at the child's own
\* path), also when another directory elsewhere has the child's name.
C32_ChildLineHasOwnHash ==
    [][(man.pc = "loop" /\ man'.pc = "loop" /\ Len(man'.nodes) < Len(man.nodes))
          => LET node == man.nodes[man.i + 1]
                 path == man.order[man.i + 1]
             IN \A k \in 1..Len(node.items) :
                    (node.items[k].hash = None
                        /\ (path \o <<node.items[k].name>>) \in DOMAIN man.built)
                        => man.hashes[node.items[k].name]
                               = dir_hash(man.built, path \o <<node.items[k].name>>)]_vars

\* C33: the turn of the worklist loop that empties the worklist removes
\* the node of the base directory, and the root hash it sets is the hash
\* of the base directory's content lines with every subdirectory below it
\* hashed from its own lines; a manifest call over an empty listing has no
\* node to remove and its root hash stays empty.
C33_BaseRemovedLast ==
    [][(man'.pc = "loop")
          => /\ (man.pc = "loop" /\ Len(man.nodes) > 0 /\ Len(man'.nodes) = 0)
                    => /\ man.order[man.i + 1] = <<>>
                       /\ man'.ref_hash = dir_hash(man.built, <<>>)
             /\ (DOMAIN man'.built = {}) => man'.ref_hash = <<>>]_vars

\* The names of the paths of the listing whose parent is p, in the order
\* of the listing.
RECURSIVE ChildrenOf(_, _, _)
ChildrenOf(listing, p, k) ==
    IF k > Len(listing) THEN <<>>
    ELSE (IF parent(listing[k]) = p THEN <<file_name(listing[k])>> ELSE <<>>)
             \o ChildrenOf(listing, p, k + 1)

\* Whether the node map holds a node for the parent of every path of the
\* listing, and each node holds exactly the paths below it, once each, in
\* the order of the listing.
Attached(nodes, listing) ==
    /\ \A k \in 1..Len(listing) : parent(listing[k]) \in DOMAIN nodes
    /\ \A p \in DOMAIN nodes :
           [k \in 1..Len(nodes[p].items) |-> nodes[p].items[k].name]
               = ChildrenOf(listing, p, 1)

TaskNames == {"main", "dev"}

\* The tree hashes given to insert_changeset by a caller of the DAO.
TreeHashes == {<<116, 49>>, <<116, 50>>}

Task(task_id, name) == [task_id |-> task_id, name |-> name]

Changeset(changeset_id, previous_changeset, task_id, user, description, tree_hash) ==
    [changeset_id |-> changeset_id, previous_changeset |-> previous_changeset,
     task_id |-> task_id, user |-> user, description |-> description,
     tree_hash |-> tree_hash]

\* The rowid SQLite gives to a row inserted with NULL for its INTEGER
\* PRIMARY KEY: one more than the greatest rowid of the table.
NextRowId(ids) == IF ids = {} THEN 1 ELSE 1 + (CHOOSE m \in ids : \A n \in ids : n <= m)

DbResult(kind, d, value) == [kind |-> kind, db |-> d, value |-> value]

\* VelesDAO::initialize: the three statements in turn; fault is the
\* number of the statement that fails, 0 for none.  CREATE UNIQUE INDEX
\* has no IF NOT EXISTS and fails on an index that is there.
initialize(d, fault) ==
    IF fault = 1 THEN DbResult("DBError", d, <<>>)
    ELSE IF fault = 2 \/ "idx_task_name" \in d.tables
        THEN DbResult("DBError", [d EXCEPT !.tables = @ \cup {"tasks"}], <<>>)
    ELSE IF fault = 3
        THEN DbResult("DBError", [d EXCEPT !.tables = @ \cup {"tasks", "idx_task_name"}],
                      <<>>)
    ELSE DbResult("Ok", [d EXCEPT !.tables = @ \cup {"tasks", "idx_task_name", "changesets"}],
                  <<>>)

\* VelesDAO::new as it would be without the remove_file of its error path.
VelesDAO_new_keeps_file(has_dir, d, fault) ==
    IF ~has_dir THEN DbResult("DBError", d, <<>>)
    ELSE IF d.exists THEN DbResult("Ok", d, <<>>)
    ELSE initialize([d EXCEPT !.exists = TRUE], fault)

\* VelesDAO::new(): Connection::open creates the file when it is not
\* there (and fails without the directory .veles); a file that was not
\* there is initialized, and removed again when that fails.
VelesDAO_new(has_dir, d, fault) ==
    IF ~has_dir THEN DbResult("DBError", d, <<>>)
    ELSE IF d.exists THEN DbResult("Ok", d, <<>>)
    ELSE LET r == initialize([d EXCEPT !.exists = TRUE], fault)
         IN IF r.kind # "Ok" THEN DbResult(r.kind, NoDb, <<>>) ELSE r

\* insert_task as it would be with a plain INSERT on a table without the
\* unique index: a second row for the name.
insert_task_twice(d, name) ==
    IF "tasks" \notin d.tables THEN DbResult("DBError", d, <<>>)
    ELSE DbResult("Ok",
                  [d EXCEPT !.tasks = @ \cup
                      {Task(NextRowId({t.task_id : t \in d.tasks}), name)}],
                  <<>>)

\* insert_task as it would be if the statement inserted nothing.
insert_task_nothing(d, name) ==
    IF "tasks" \notin d.tables THEN DbResult("DBError", d, <<>>)
    ELSE DbResult("Ok", d, <<>>)

\* VelesDAO::insert_task: INSERT OR IGNORE on the unique name.
insert_task(d, name) ==
    IF "tasks" \notin d.tables THEN DbResult("DBError", d, <<>>)
    ELSE IF \E t \in d.tasks : t.name = name THEN DbResult("Ok", d, <<>>)
    ELSE DbResult("Ok",
                  [d EXCEPT !.tasks = @ \cup
                      {Task(NextRowId({t.task_id : t \in d.tasks}), name)}],
                  <<>>)

\* VelesDAO::get_task: query_row fails with QueryReturnedNoRows when no
\* task has the name.
get_task(d, name) ==
    IF "tasks" \notin d.tables THEN DbResult("DBError", d, <<>>)
    ELSE IF ~\E t \in d.tasks : t.name = name THEN DbResult("DBError", d, <<>>)
    ELSE DbResult("Ok", d, <<CHOOSE t \in d.tasks : t.name = name>>)

\* get_latest_changeset as it would be without WHERE task_id = ?.
get_latest_changeset_any_task(d, task_id) ==
    IF "changesets" \notin d.tables THEN DbResult("DBError", d, <<>>)
    ELSE IF d.changesets = {} THEN DbResult("Ok", d, <<>>)
    ELSE DbResult("Ok", d, <<CHOOSE c \in d.changesets :
                                 \A e \in d.changesets : e.changeset_id <= c.changeset_id>>)

\* get_latest_changeset as it would be with ORDER BY changeset_id ASC.
get_latest_changeset_asc(d, task_id) ==
    LET rows == {c \in d.changesets : c.task_id = task_id} IN
    IF "changesets" \notin d.tables THEN DbResult("DBError", d, <<>>)
    ELSE IF rows = {} THEN DbResult("Ok", d, <<>>)
    ELSE DbResult("Ok", d, <<CHOOSE c \in rows :
                                 \A e \in rows : c.changeset_id <= e.changeset_id>>)

\* VelesDAO::get_latest_changeset: the row of the task with the greatest
\* changeset_id as Some (a sequence of one row), None (the empty sequence)
\* when the query returns no row.
get_latest_changeset(d, task_id) ==
    LET rows == {c \in d.changesets : c.task_id = task_id} IN
    IF "changesets" \notin d.tables THEN DbResult("DBError", d, <<>>)
    ELSE IF rows = {} THEN DbResult("Ok", d, <<>>)
    ELSE DbResult("Ok", d, <<CHOOSE c \in rows :
                                 \A e \in rows : e.changeset_id <= c.changeset_id>>)

\* insert_changeset as it would be with INSERT OR REPLACE and the row
\* count for the id.
insert_changeset_replaces(d, changeset) ==
    LET id == IF d.changesets = {} THEN 1 ELSE Cardinality(d.changesets)
        row == [changeset EXCEPT !.changeset_id = id]
    IN IF "changesets" \notin d.tables THEN DbResult("DBError", d, 0)
       ELSE DbResult("Ok",
                     [d EXCEPT !.changesets =
                         {c \in @ : c.changeset_id # id} \cup {row}], id)

\* insert_changeset as it would be with 0 bound to :previous_changeset.
insert_changeset_drops_previous(d, changeset) ==
    LET id == NextRowId({c.changeset_id : c \in d.changesets})
        row == [changeset EXCEPT !.changeset_id = id, !.previous_changeset = 0]
    IN IF "changesets" \notin d.tables THEN DbResult("DBError", d, 0)
       ELSE DbResult("Ok", [d EXCEPT !.changesets = @ \cup {row}], id)

\* VelesDAO::insert_changeset: the row goes in with a new rowid, which
\* last_insert_rowid returns; the changeset_id of the argument is not used.
insert_changeset(d, changeset) ==
    LET id == NextRowId({c.changeset_id : c \in d.changesets})
        row == [changeset EXCEPT !.changeset_id = id]
    IN IF "changesets" \notin d.tables THEN DbResult("DBError", d, 0)
       ELSE DbResult("Ok", [d EXCEPT !.changesets = @ \cup {row}], id)

VelesChange(id, user, description) == [id |-> id, user |-> user, description |-> description]

\* The rows of S in the order of their rowid, as a scan of the table
\* yields them.
RECURSIVE ByRowId(_)
ByRowId(S) ==
    IF S = {} THEN <<>>
    ELSE LET c == CHOOSE x \in S : \A y \in S : x.changeset_id <= y.changeset_id
         IN <<c>> \o ByRowId(S \ {c})

\* VelesDAO::get_changesets
get_changesets(d) ==
    IF "changesets" \notin d.tables THEN DbResult("DBError", d, <<>>)
    ELSE LET rows == ByRowId(d.changesets)
         IN DbResult("Ok", d,
                     [k \in 1..Len(rows) |->
                         VelesChange(rows[k].changeset_id, rows[k].user,
                                     rows[k].description)])

(***************************************************************************)
(* The calls of the DAO, as actions.                                       *)
(***************************************************************************)
\* let dao = VelesDAO::new(), every statement succeeding
DaoNew ==
    /\ ~dao
    /\ sub.pc = "idle"
    /\ \E r \in {VelesDAO_new(dir, db, 0)} :
        /\ db' = r.db
        /\ dao' = (r.kind = "Ok")
        /\ op' = Called("VelesDAO::new", <<>>, r.kind, <<>>)
    /\ UNCHANGED <<dir, faults, inserted, index, wt, sub>>
    /\ UNCHANGED <<kv_vars, obj_vars, man_vars>>

\* VelesDAO::new() on a store file that is not there, one statement of
\* initialize failing
DaoNewFault(fault) ==
    /\ ~dao
    /\ sub.pc = "idle"
    /\ dir
    /\ ~db.exists
    /\ faults < MaxFaults
    /\ \E r \in {VelesDAO_new(dir, db, fault)} :
        /\ db' = r.db
        /\ dao' = (r.kind = "Ok")
        /\ op' = Called("VelesDAO::new", <<>>, r.kind, <<>>)
    /\ faults' = faults + 1
    /\ UNCHANGED <<dir, inserted, index, wt, sub>>
    /\ UNCHANGED <<kv_vars, obj_vars, man_vars>>

\* The VelesDAO value is dropped.
DaoDrop ==
    /\ dao
    /\ sub.pc = "idle"
    /\ dao' = FALSE
    /\ op' = Called("drop", <<>>, "Ok", <<>>)
    /\ UNCHANGED <<dir, faults, db, inserted, index, wt, sub>>
    /\ UNCHANGED <<kv_vars, obj_vars, man_vars>>

\* dao.insert_task(name)
InsertTask(name) ==
    /\ dao
    /\ sub.pc = "idle"
    /\ \E r \in {insert_task(db, name)} :
        /\ db' = r.db
        /\ op' = Called("insert_task", name, r.kind, <<>>)
    /\ UNCHANGED <<dir, faults, dao, inserted, index, wt, sub>>
    /\ UNCHANGED <<kv_vars, obj_vars, man_vars>>

\* dao.get_task(name)
GetTask(name) ==
    /\ dao
    /\ sub.pc = "idle"
    /\ \E r \in {get_task(db, name)} : op' = Called("get_task", name, r.kind, r.value)
    /\ UNCHANGED <<dir, faults, db, dao, inserted, index, wt, sub>>
    /\ UNCHANGED <<kv_vars, obj_vars, man_vars>>

\* dao.get_latest_changeset(task_id)
GetLatestChangeset(task_id) ==
    /\ dao
    /\ sub.pc = "idle"
    /\ \E r \in {get_latest_changeset(db, task_id)} :
        op' = Called("get_latest_changeset", task_id, r.kind, r.value)
    /\ UNCHANGED <<dir, faults, db, dao, inserted, index, wt, sub>>
    /\ UNCHANGED <<kv_vars, obj_vars, man_vars>>

\* dao.insert_changeset(&changeset) for a task the caller has looked up
InsertChangeset(task_id, previous_changeset, tree_hash) ==
    /\ dao
    /\ sub.pc = "idle"
    /\ Cardinality(db.changesets) < MaxChangesets
    /\ \E t \in db.tasks : t.task_id = task_id
    /\ \E r \in {insert_changeset(db, Changeset(0, previous_changeset, task_id,
                                                 "u", "d", tree_hash))} :
        /\ db' = r.db
        /\ inserted' = IF r.kind = "Ok" THEN Append(inserted, r.value) ELSE inserted
        /\ op' = Called("insert_changeset", task_id, r.kind, r.value)
    /\ UNCHANGED <<dir, faults, dao, index, wt, sub>>
    /\ UNCHANGED <<kv_vars, obj_vars, man_vars>>

\* dao.get_changesets()
GetChangesets ==
    /\ dao
    /\ sub.pc = "idle"
    /\ \E r \in {get_changesets(db)} : op' = Called("get_changesets", <<>>, r.kind, r.value)
    /\ UNCHANGED <<dir, faults, db, dao, inserted, index, wt, sub>>
    /\ UNCHANGED <<kv_vars, obj_vars, man_vars>>

NextDao ==
    \/ MkDir
    \/ DaoNew
    \/ \E fault \in 1..3 : DaoNewFault(fault)
    \/ DaoDrop
    \/ \E name \in TaskNames : InsertTask(name)
    \/ \E name \in TaskNames : GetTask(name)
    \/ \E task_id \in 1..Cardinality(TaskNames) : GetLatestChangeset(task_id)
    \/ \E task_id \in 1..Cardinality(TaskNames), previous_changeset \in 0..1,
          tree_hash \in TreeHashes :
            InsertChangeset(task_id, previous_changeset, tree_hash)
    \/ GetChangesets

\* The ledger used through the DAO by one process at a time.
SpecDao == Init /\ [][NextDao]_vars

(***************************************************************************)
(* Claims on the DAO.                                                      *)
(***************************************************************************)
\* The rows of changesets of a task.
RowsOfTask(d, task_id) == {c \in d.changesets : c.task_id = task_id}

\* C23: get_latest_changeset(task_id) returns Ok; with no changeset of the
\* task it returns None, and otherwise Some row of that task whose
\* changeset_id no row of the task exceeds.
C23_LatestOfTask ==
    (op.name = "get_latest_changeset")
        => /\ op.kind = "Ok"
           /\ IF RowsOfTask(db, op.key) = {} THEN op.value = <<>>
              ELSE /\ Len(op.value) = 1
                   /\ op.value[1] \in RowsOfTask(db, op.key)
                   /\ \A c \in RowsOfTask(db, op.key) :
                          c.changeset_id <= op.value[1].changeset_id

\* The lookup for task 1, which has two changesets, while the changeset
\* with the greatest id of the ledger is one of task 2.
C23_Witness ==
    /\ op.name = "get_latest_changeset" /\ op.key = 1
    /\ Cardinality(RowsOfTask(db, 1)) = 2
    /\ \E c \in RowsOfTask(db, 2) : \A e \in RowsOfTask(db, 1) : e.changeset_id < c.changeset_id
    /\ Len(op.value) = 1 /\ op.value[1].task_id = 1 /\ op.value[1].changeset_id = 2

\* C24: insert_task returns Ok and leaves exactly one row with the name;
\* the rows that were there stay as they are, and for a name that had a
\* row the table is unchanged.
C24_InsertTaskOnce ==
    [][(op'.name = "insert_task")
          => /\ op'.kind = "Ok"
             /\ Cardinality({t \in db'.tasks : t.name = op'.key}) = 1
             /\ db.tasks \subseteq db'.tasks
             /\ (\E t \in db.tasks : t.name = op'.key) => db'.tasks = db.tasks]_vars

\* insert_task("main") called again after "main" and "dev" were inserted.
C24_Witness ==
    /\ op.name = "insert_task" /\ op.key = "main" /\ op.kind = "Ok"
    /\ db.tasks = {Task(1, "main"), Task(2, "dev")}

\* C26: no step removes or changes a row of changesets, a row that comes
\* in has an id greater than every id there, and get_changesets lists the
\* ids in the order the rows were inserted.
C26_LedgerAppendOnly ==
    [][/\ db.changesets \subseteq db'.changesets
       /\ \A n \in db'.changesets \ db.changesets :
              \A c \in db.changesets : c.changeset_id < n.changeset_id
       /\ (op'.name = "get_changesets")
              => /\ op'.kind = "Ok"
                 /\ [k \in 1..Len(op'.value) |-> op'.value[k].id] = inserted']_vars

\* A listing of three changesets.
C26_Witness ==
    /\ op.name = "get_changesets" /\ Len(op.value) = 3
    /\ Len(inserted) = 3 /\ inserted[1] < inserted[2] /\ inserted[2] < inserted[3]

\* The schema initialize creates.
Schema == {"tasks", "idx_task_name", "changesets"}

\* C27: a VelesDAO::new that fails on a store file that was not there
\* leaves no store file, and a store file that is there has the whole
\* schema: an open that skips initialize finds nothing missing.
C27_FailedInitLeavesNoFile ==
    [][/\ (op'.name = "VelesDAO::new" /\ op'.kind # "Ok" /\ ~db.exists) => ~db'.exists
       /\ db'.exists => db'.tables = Schema]_vars

\* An open that succeeded after an open whose initialize had failed.
C27_Witness ==
    /\ op.name = "VelesDAO::new" /\ op.kind = "Ok" /\ faults = 1
    /\ db.exists /\ db.tables = Schema

(***************************************************************************)
(* Part 5: the client.  The working-copy index .veles/index is a bincode   *)
(* value: the timestamp, the number of entries as a u64, and per entry the *)
(* path (u64 length, bytes), the two times and the state as a u32.         *)
(***************************************************************************)
\* The paths add and the edits of the working tree are given.
UserPaths == {PathA, PathB}

\* The bytes an edit leaves in a file: "hi", "o".
FileContents == {<<104, 105>>, <<111>>}

\* SystemTime::now() and what fs::metadata reports: the times bear on
\* nothing the client does, and are all this one.
Now == [secs |-> 1, nanos |-> 0]

\* The variants of IndexState in the order of their declaration.
IndexStates == <<"Untracked", "Tracked", "Added">>

VelesIndexMeta(created, modified, state) ==
    [created |-> created, modified |-> modified, state |-> state]

VelesIndex(timestamp, idx) == [timestamp |-> timestamp, index |-> idx]

\* bincode's u64, for the lengths of this model.
LE64(n) == LE32(n) \o <<0, 0, 0, 0>>

FromLE64(b) ==
    IF SubSeq(b, 5, 8) # <<0, 0, 0, 0>> THEN MaxInt ELSE FromLE32(SubSeq(b, 1, 4))

\* The order of byte strings by their bytes.
RECURSIVE LexLess(_, _)
LexLess(a, b) ==
    IF b = <<>> THEN FALSE
    ELSE IF a = <<>> THEN TRUE
    ELSE IF Head(a) # Head(b) THEN Head(a) < Head(b)
    ELSE LexLess(Tail(a), Tail(b))

\* The iteration of a HashMap's keys: the order is the hasher's; the
\* keys are taken here in the order of their bytes.
RECURSIVE HashMapKeys(_)
HashMapKeys(S) ==
    IF S = {} THEN <<>>
    ELSE LET k == CHOOSE x \in S : \A y \in S \ {x} : LexLess(x, y)
         IN <<k>> \o HashMapKeys(S \ {k})

\* serde's SystemTime: secs_since_epoch as u64, nanos_since_epoch as u32.
serialize_time(t) == LE64(t.secs) \o LE32(t.nanos)

StateIndex(state) == CHOOSE k \in 1..3 : IndexStates[k] = state

RECURSIVE serialize_entries(_, _)
serialize_entries(idx, keys) ==
    IF keys = <<>> THEN <<>>
    ELSE LET k == Head(keys) IN
         LE64(Len(k)) \o k \o serialize_time(idx[k].created)
             \o serialize_time(idx[k].modified) \o LE32(StateIndex(idx[k].state) - 1)
             \o serialize_entries(idx, Tail(keys))

\* bincode::serialize_index(&VelesIndex)
serialize_index(v) ==
    serialize_time(v.timestamp) \o LE64(Cardinality(DOMAIN v.index))
        \o serialize_entries(v.index, HashMapKeys(DOMAIN v.index))

deserialize_time(b) == [secs |-> FromLE64(SubSeq(b, 1, 8)), nanos |-> FromLE32(SubSeq(b, 9, 12))]

\* The entries of the map from position pos on: n entries, each read
\* whole or not at all; a path that is not UTF-8 and a state that is no
\* variant are errors.
RECURSIVE deserialize_entries(_, _, _, _)
deserialize_entries(b, pos, n, idx) ==
    IF n = 0 THEN Returned("Ok", idx)
    ELSE IF pos + 7 > Len(b) THEN Returned("SerializationError", <<>>)
    ELSE LET len == FromLE64(SubSeq(b, pos, pos + 7))
             rest == pos + 8 + len
         IN IF len > Len(b) \/ rest + 27 > Len(b) THEN Returned("SerializationError", <<>>)
            ELSE LET k == SubSeq(b, pos + 8, rest - 1)
                     created == deserialize_time(SubSeq(b, rest, rest + 11))
                     modified == deserialize_time(SubSeq(b, rest + 12, rest + 23))
                     state == FromLE32(SubSeq(b, rest + 24, rest + 27))
                 IN IF ~Utf8From(k, 1) \/ state > 2
                    THEN Returned("SerializationError", <<>>)
                    ELSE deserialize_entries(b, rest + 28, n - 1,
                            [q \in (DOMAIN idx) \cup {k} |->
                                IF q = k
                                THEN VelesIndexMeta(created, modified, IndexStates[state + 1])
                                ELSE idx[q]])

\* bincode::deserialize::<VelesIndex>(&data); bytes after the value are
\* not looked at.
deserialize_index(b) ==
    IF Len(b) < 20 THEN Returned("SerializationError", <<>>)
    ELSE LET r == deserialize_entries(b, 21, FromLE64(SubSeq(b, 13, 20)),
                                      [q \in {} |-> <<>>])
         IN IF r.kind # "Ok" THEN r
            ELSE Returned("Ok", VelesIndex(deserialize_time(SubSeq(b, 1, 12)), r.value))

\* The position of the first byte c in b, 0 when there is none.
IndexOf(b, c) ==
    IF \E i \in 1..Len(b) : b[i] = c
    THEN CHOOSE i \in 1..Len(b) : b[i] = c /\ \A j \in 1..(i - 1) : b[j] # c
    ELSE 0

\* str::lines
RECURSIVE lines(_)
lines(text) ==
    IF text = <<>> THEN <<>>
    ELSE LET n == IndexOf(text, 10)
         IN IF n = 0 THEN <<text>>
            ELSE <<SubSeq(text, 1, n - 1)>> \o lines(SubSeq(text, n + 1, Len(text)))

\* Path::starts_with: base is a prefix of path by whole components.
path_starts_with(path, base) ==
    /\ Len(base) <= Len(path)
    /\ SubSeq(path, 1, Len(base)) = base
    /\ (Len(path) = Len(base) \/ path[Len(base) + 1] = 47 \/ base[Len(base)] = 47)

\* DirIterator::from_ignorefile(".", ".velesignore", false): the files of
\* the working tree that no line of the ignore file covers.  The ignore
\* file of this model covers .veles, whose files are not listed here.
DirIterator_from_ignorefile(w) ==
    LET ignore_data == IF IgnorePath \in DOMAIN w THEN lines(w[IgnorePath]) ELSE <<>>
        filter == {<<46, 47>> \o ignore_data[k] : k \in 1..Len(ignore_data)}
    IN {path \in DOMAIN w : ~\E f \in filter : path_starts_with(path, f)}

LoadResult(kind, file, v) == [kind |-> kind, file |-> file, index |-> v]

\* VelesIndex::load with the index file opened with truncate.
VelesIndex_load_truncates(has_dir, file, w) ==
    IF ~has_dir THEN LoadResult("IOError", file, <<>>)
    ELSE LET iter == DirIterator_from_ignorefile(w)
         IN LoadResult("Ok", [exists |-> TRUE, bytes |-> <<>>],
                       VelesIndex(Now, [q \in iter |-> VelesIndexMeta(Now, Now, "Untracked")]))

\* VelesIndex::load(): the file is opened with read, write and create, so
\* that it is there afterwards; an empty file gives an empty index; the
\* paths of the walk that the index does not hold come in as Untracked,
\* in memory only.
VelesIndex_load(has_dir, file, w) ==
    IF ~has_dir THEN LoadResult("IOError", file, <<>>)
    ELSE LET file1 == IF file.exists THEN file ELSE [exists |-> TRUE, bytes |-> <<>>]
             parsed == IF file1.bytes = <<>>
                       THEN Returned("Ok", VelesIndex(Now, [q \in {} |-> <<>>]))
                       ELSE deserialize_index(file1.bytes)
             iter == DirIterator_from_ignorefile(w)
         IN IF parsed.kind # "Ok" THEN LoadResult(parsed.kind, file1, <<>>)
            ELSE LoadResult("Ok", file1,
                    VelesIndex(parsed.value.timestamp,
                        [q \in (DOMAIN parsed.value.index) \cup iter |->
                            IF q \in DOMAIN parsed.value.index THEN parsed.value.index[q]
                            ELSE VelesIndexMeta(Now, Now, "Untracked")]))

\* VelesIndex::reset
reset(v) == [v EXCEPT !.index = [q \in DOMAIN @ |-> [@[q] EXCEPT !.state = "Untracked"]]]

\* VelesIndex::save: fs::write(".veles/index", data)
save(v) == [exists |-> TRUE, bytes |-> serialize_index(v)]

\* submit's added as it would be without the filter on the state.
added_unfiltered(v) == DOMAIN v.index

\* submit's added: the paths of the index whose state is Added
added(v) == {k \in DOMAIN v.index : v.index[k].state = "Added"}

\* The index states the file .veles/index holds, by path; no entries for
\* a file that is not there, is empty or does not parse.
SavedStates(file) ==
    LET r == IF file.exists /\ file.bytes # <<>> THEN deserialize_index(file.bytes)
             ELSE Returned("None", <<>>)
    IN IF r.kind # "Ok" THEN [q \in {} |-> <<>>]
       ELSE [q \in DOMAIN r.value.index |-> r.value.index[q].state]

(***************************************************************************)
(* The repository's side of a submit.  LocalTransport::submit(&Changeset)  *)
(* and the VelesRepo that holds a VelesDAO are called by the client and    *)
(* are not in the source: they follow the design of the revision store.    *)
(* The DAO calls they make are the ones of Part 4.                         *)
(***************************************************************************)
\* The Changeset the client hands to the transport.
ClientChangeset(owner, description, chs) ==
    [owner |-> owner, description |-> description, changes |-> chs]

\* VelesRepo::new: the ledger is opened and the task "main" ensured.
VelesRepo_new(has_dir, d, fault) ==
    LET r == VelesDAO_new(has_dir, d, fault)
    IN IF r.kind # "Ok" THEN r ELSE insert_task(r.db, "main")

\* The text of a tree object: one line "<hash> <path>\n" per file.
RECURSIVE serialize_tree(_, _)
serialize_tree(tree, keys) ==
    IF keys = <<>> THEN <<>>
    ELSE tree[Head(keys)] \o <<32>> \o Head(keys) \o <<10>>
             \o serialize_tree(tree, Tail(keys))

\* The mapping a tree text holds: each line is cut at its first space.
RECURSIVE parse_lines(_, _)
parse_lines(ls, tree) ==
    IF ls = <<>> THEN Returned("Ok", tree)
    ELSE LET n == IndexOf(Head(ls), 32)
         IN IF n = 0 THEN Returned("CorruptedData", <<>>)
            ELSE LET hash == SubSeq(Head(ls), 1, n - 1)
                     path == SubSeq(Head(ls), n + 1, Len(Head(ls)))
                 IN parse_lines(Tail(ls),
                        [q \in (DOMAIN tree) \cup {path} |->
                            IF q = path THEN hash ELSE tree[q]])

parse_tree(text) == parse_lines(lines(text), [q \in {} |-> <<>>])

\* The tree of a changeset: its tree object is read from the object
\* store, at the path finalize gave it, and parsed.
load_tree(files, tree_hash) ==
    LET path == ObjectPath(ObjectsDir, tree_hash, 40)
    IN IF ~Exists(files, path) THEN Returned("IOError", <<>>)
       ELSE LET r == gunzip(files[path].bytes)
            IN IF r.kind # "Ok" THEN r ELSE parse_tree(r.value)

\* The changes laid over a tree in their order: a later entry wins.
RECURSIVE overlay(_, _)
overlay(tree, chs) ==
    IF chs = <<>> THEN tree
    ELSE overlay([q \in (DOMAIN tree) \cup {Head(chs)[1]} |->
                     IF q = Head(chs)[1] THEN Head(chs)[2] ELSE tree[q]],
                 Tail(chs))

MergeResult(kind, task_id, previous, tree) ==
    [kind |-> kind, task_id |-> task_id, previous |-> previous, tree |-> tree]

\* The reads of a submit: the task "main", its latest changeset, that
\* changeset's tree, and the merge in memory.
submit_merge(d, files, changeset) ==
    LET task == get_task(d, "main") IN
    IF task.kind # "Ok" THEN MergeResult(task.kind, 0, 0, <<>>)
    ELSE LET latest == get_latest_changeset(d, task.value[1].task_id) IN
         IF latest.kind # "Ok" THEN MergeResult(latest.kind, 0, 0, <<>>)
         ELSE IF latest.value = <<>>
             THEN MergeResult("Ok", task.value[1].task_id, 0,
                              overlay([q \in {} |-> <<>>], changeset.changes))
         ELSE LET tree == load_tree(files, latest.value[1].tree_hash) IN
              IF tree.kind # "Ok" THEN MergeResult(tree.kind, 0, 0, <<>>)
              ELSE MergeResult("Ok", task.value[1].task_id, latest.value[1].changeset_id,
                               overlay(tree.value, changeset.changes))

(***************************************************************************)
(* The calls of the client, as actions.  A submit is a sequence of steps,  *)
(* between any two of which the process may stop.                          *)
(***************************************************************************)
\* Path::exists for a path the user gives: a relative path is taken from
\* the current directory, which is the base "." of the working tree.
Path_exists(w, file) ==
    (IF Len(file) >= 2 /\ SubSeq(file, 1, 2) = <<46, 47>> THEN file ELSE <<46, 47>> \o file)
        \in DOMAIN w

\* veles add <file>: VelesClient::add
Add(file) ==
    /\ sub.pc = "idle"
    /\ \E r \in {VelesIndex_load(dir, index, wt)} :
        IF r.kind # "Ok"
        THEN /\ index' = r.file
             /\ op' = Called("add", file, r.kind, <<>>)
        ELSE IF ~Path_exists(wt, file)
        THEN /\ index' = r.file
             /\ op' = Called("add", file, "NotFound", <<>>)
        ELSE /\ index' = save(IF file \in DOMAIN r.index.index
                              THEN [r.index EXCEPT !.index[file].state = "Added"]
                              ELSE r.index)
             /\ op' = Called("add", file, "Ok", <<>>)
    /\ UNCHANGED <<dir, faults, db, dao, inserted, wt, sub>>
    /\ UNCHANGED <<kv_vars, obj_vars, man_vars>>

\* The user writes a file of the working tree.
Edit(path, content) ==
    /\ sub.pc = "idle"
    /\ path \in DOMAIN wt
    /\ wt[path] \notin FileContents \ {<<104, 105>>}
    /\ wt[path] # content
    /\ wt' = [wt EXCEPT ![path] = content]
    /\ op' = Called("edit", path, "Ok", <<>>)
    /\ UNCHANGED <<dir, faults, db, dao, inserted, index, sub>>
    /\ UNCHANGED <<kv_vars, obj_vars, man_vars>>

\* The user removes a file of the working tree.
Delete(path) ==
    /\ sub.pc = "idle"
    /\ path \in DOMAIN wt
    /\ wt' = [q \in (DOMAIN wt) \ {path} |-> wt[q]]
    /\ op' = Called("delete", path, "Ok", <<>>)
    /\ UNCHANGED <<dir, faults, db, dao, inserted, index, sub>>
    /\ UNCHANGED <<kv_vars, obj_vars, man_vars>>

\* What a submit that starts now finds: the rows of the ledger and the
\* states of the saved index.
Before == [changesets |-> db.changesets, states |-> SavedStates(index)]

\* A submit ends without a changeset.
Failed(kind) ==
    /\ sub' = NoSubmit
    /\ op' = Called("submit", <<>>, kind, <<>>)

\* submit: let mut index = VelesIndex::load()?
SubmitLoad ==
    /\ sub.pc = "idle"
    /\ ~dao
    /\ Cardinality(db.changesets) < MaxChangesets
    /\ \E r \in {VelesIndex_load(dir, index, wt)} :
        /\ index' = r.file
        /\ IF r.kind # "Ok" THEN Failed(r.kind)
           ELSE /\ sub' = [NoSubmit EXCEPT !.pc = "loaded", !.index = r.index,
                                           !.before = Before]
                /\ op' = Called("VelesIndex::load", <<>>, "Ok", <<>>)
    /\ UNCHANGED <<dir, faults, db, dao, inserted, wt>>
    /\ UNCHANGED <<kv_vars, obj_vars, man_vars>>

\* submit: let transport = LocalTransport::new()?, and the collect of
\* added
SubmitTransport ==
    /\ sub.pc = "loaded"
    /\ \E r \in {VelesRepo_new(dir, db, 0)} :
        /\ db' = r.db
        /\ IF r.kind # "Ok" THEN Failed(r.kind)
           ELSE /\ sub' = [sub EXCEPT !.pc = "open", !.added = added(sub.index)]
                /\ op' = Called("LocalTransport::new", <<>>, "Ok", <<>>)
    /\ UNCHANGED <<dir, faults, dao, inserted, index, wt>>
    /\ UNCHANGED <<kv_vars, obj_vars, man_vars>>

\* LocalTransport::new() on a store file that is not there, one statement
\* of initialize failing
SubmitTransportFault(fault) ==
    /\ sub.pc = "loaded"
    /\ ~db.exists
    /\ faults < MaxFaults
    /\ \E r \in {VelesRepo_new(dir, db, fault)} :
        /\ db' = r.db
        /\ Failed(r.kind)
    /\ faults' = faults + 1
    /\ UNCHANGED <<dir, dao, inserted, index, wt>>
    /\ UNCHANGED <<kv_vars, obj_vars, man_vars>>

\* submit: let mut writer = transport.send_object()? for the next path of
\* added, in whichever order the HashMap yields the paths
SubmitSendObject(path) ==
    /\ sub.pc = "open"
    /\ path \in sub.added
    /\ LET r == Object_new(ofs, FreshIno(ofs, objects)) IN
        /\ ofs' = r.fs
        /\ sub' = [sub EXCEPT !.pc = "object", !.writer = r.object, !.path = path]
    /\ op' = Called("Object::new", path, "Ok", <<>>)
    /\ UNCHANGED <<dir, faults, db, dao, inserted, index, wt>>
    /\ UNCHANGED <<objects, odirs, commit, written, output>>
    /\ UNCHANGED <<kv_vars, man_vars>>

\* submit: File::open(path)? and std::io::copy(&mut reader, &mut writer)?;
\* when the file is gone the writer is dropped on the way out
SubmitCopy ==
    /\ sub.pc = "object"
    /\ IF sub.path \notin DOMAIN wt
       THEN /\ ofs' = finish(ofs, sub.writer)
            /\ Failed("IOError")
       ELSE LET r == Object_write(ofs, sub.writer, wt[sub.path]) IN
            /\ ofs' = r.fs
            /\ sub' = [sub EXCEPT !.pc = "copied", !.writer = r.object]
            /\ op' = Called("write", wt[sub.path], "Ok", <<>>)
    /\ UNCHANGED <<dir, faults, db, dao, inserted, index, wt>>
    /\ UNCHANGED <<objects, odirs, commit, written, output>>
    /\ UNCHANGED <<kv_vars, man_vars>>

\* submit: let hash = writer.finalize()?; changes.push((path, hash))
SubmitFinalize ==
    /\ sub.pc = "copied"
    /\ \E r \in {finalize(ofs, odirs, sub.writer)} :
        /\ ofs' = r.fs
        /\ odirs' = r.dirs
        /\ IF r.kind # "Ok" THEN Failed(r.kind)
           ELSE /\ sub' = [sub EXCEPT !.pc = "open", !.writer = NoObject, !.path = <<>>,
                                      !.added = @ \ {sub.path},
                                      !.changes = Append(@, <<sub.path, r.id>>)]
                /\ op' = Called("finalize", sub.path, "Ok", r.id)
    /\ UNCHANGED <<dir, faults, db, dao, inserted, index, wt>>
    /\ UNCHANGED <<objects, commit, written, output>>
    /\ UNCHANGED <<kv_vars, man_vars>>

\* transport.submit(&changeset), first part: the lookups, the merge, and
\* the merged tree written to an object writer
SubmitMerge ==
    /\ sub.pc = "open"
    /\ sub.added = {}
    /\ \E m \in {submit_merge(db, ofs, ClientChangeset("u", "d", sub.changes))} :
        IF m.kind # "Ok"
        THEN /\ Failed(m.kind)
             /\ UNCHANGED ofs
        ELSE \E text \in {serialize_tree(m.tree, HashMapKeys(DOMAIN m.tree))} :
             LET r == Object_new(ofs, FreshIno(ofs, objects))
                 w == IF text = <<>> THEN r
                      ELSE Object_write(r.fs, r.object, text)
             IN /\ ofs' = w.fs
                /\ sub' = [sub EXCEPT !.pc = "tree", !.writer = w.object,
                                      !.task_id = m.task_id, !.previous = m.previous,
                                      !.tree = m.tree]
                /\ op' = Called("merge", <<>>, "Ok", m.previous)
    /\ UNCHANGED <<dir, faults, db, dao, inserted, index, wt>>
    /\ UNCHANGED <<objects, odirs, commit, written, output>>
    /\ UNCHANGED <<kv_vars, man_vars>>

\* transport.submit, second part: the tree object is finalized
SubmitTree ==
    /\ sub.pc = "tree"
    /\ \E r \in {finalize(ofs, odirs, sub.writer)} :
        /\ ofs' = r.fs
        /\ odirs' = r.dirs
        /\ IF r.kind # "Ok" THEN Failed(r.kind)
           ELSE /\ sub' = [sub EXCEPT !.pc = "stored", !.writer = NoObject,
                                      !.tree_hash = r.id]
                /\ op' = Called("finalize", <<>>, "Ok", r.id)
    /\ UNCHANGED <<dir, faults, db, dao, inserted, index, wt>>
    /\ UNCHANGED <<objects, commit, written, output>>
    /\ UNCHANGED <<kv_vars, man_vars>>

\* transport.submit, last part: the changeset row is inserted
SubmitInsert ==
    /\ sub.pc = "stored"
    /\ \E r \in {insert_changeset(db, Changeset(0, sub.previous, sub.task_id, "u", "d",
                                                 sub.tree_hash))} :
        /\ db' = r.db
        /\ IF r.kind # "Ok"
           THEN /\ Failed(r.kind)
                /\ UNCHANGED inserted
           ELSE /\ inserted' = Append(inserted, r.value)
                /\ sub' = [sub EXCEPT !.pc = "inserted", !.id = r.value]
                /\ op' = Called("insert_changeset", sub.task_id, "Ok", r.value)
    /\ UNCHANGED <<dir, faults, dao, index, wt>>
    /\ UNCHANGED <<kv_vars, obj_vars, man_vars>>

\* submit: index.reset(); index.save()?; Ok(changeset_id)
SubmitSave ==
    /\ sub.pc = "inserted"
    /\ index' = save(reset(sub.index))
    /\ sub' = NoSubmit
    /\ op' = Called("submit", <<>>, "Ok", sub.id)
    /\ UNCHANGED <<dir, faults, db, dao, inserted, wt>>
    /\ UNCHANGED <<kv_vars, obj_vars, man_vars>>

\* The process stops in the middle of a submit: what is in memory is
\* lost, no Drop runs, the files stay as they are.
SubmitStop ==
    /\ sub.pc # "idle"
    /\ faults < MaxFaults
    /\ faults' = faults + 1
    /\ Failed("Stop")
    /\ UNCHANGED <<dir, db, dao, inserted, index, wt>>
    /\ UNCHANGED <<kv_vars, obj_vars, man_vars>>

\* The process stops inside LocalTransport::new on a store file that was
\* not there: before statement number fault of initialize, or, for 0,
\* after the last one.
SubmitStopInitialize(fault) ==
    /\ sub.pc = "loaded"
    /\ dir
    /\ ~db.exists
    /\ faults < MaxFaults
    /\ faults' = faults + 1
    /\ db' = initialize([db EXCEPT !.exists = TRUE], fault).db
    /\ Failed("Stop")
    /\ UNCHANGED <<dir, dao, inserted, index, wt>>
    /\ UNCHANGED <<kv_vars, obj_vars, man_vars>>

NextSubmit ==
    \/ MkDir
    \/ \E file \in UserPaths : Add(file)
    \/ \E content \in FileContents : Edit(PathA, content)
    \/ Delete(PathB)
    \/ SubmitLoad
    \/ SubmitTransport
    \/ \E fault \in 1..3 : SubmitTransportFault(fault)
    \/ \E path \in UserPaths : SubmitSendObject(path)
    \/ SubmitCopy
    \/ SubmitFinalize
    \/ SubmitMerge
    \/ SubmitTree
    \/ SubmitInsert
    \/ SubmitSave
    \/ SubmitStop
    \/ \E fault \in 0..3 : SubmitStopInitialize(fault)

\* One client at a time working on a working tree and its repository.
SpecSubmit == Init /\ [][NextSubmit]_vars

\* The paths a user may give to add: "./a" and "./b" as the walk names
\* them, and "a", the same file as "./a" named without the leading "./".
AddPaths == UserPaths \cup {<<97>>}

NextAdd ==
    \/ MkDir
    \/ \E file \in AddPaths : Add(file)
    \/ \E content \in FileContents : Edit(PathA, content)
    \/ Delete(PathB)
    \/ SubmitLoad
    \/ SubmitTransport
    \/ \E path \in UserPaths : SubmitSendObject(path)
    \/ SubmitCopy
    \/ SubmitFinalize
    \/ SubmitMerge
    \/ SubmitTree
    \/ SubmitInsert
    \/ SubmitSave

\* A client whose user adds files by either name, and submits without
\* faults.
SpecAdd == Init /\ [][NextAdd]_vars

(***************************************************************************)
(* Claims on submit.                                                       *)
(***************************************************************************)
\* The row of S with the greatest changeset_id.
LatestRow(S) == CHOOSE c \in S : \A e \in S : e.changeset_id <= c.changeset_id

\* The step is the ledger insert of a submit.
InsertStep == sub.pc = "stored" /\ sub'.pc = "inserted"

\* The row the insert of this step has put in.
InsertedRow == CHOOSE c \in db'.changesets : c.changeset_id = sub'.id

TreeOf(id) == load_tree(ofs, (CHOOSE c \in db.changesets : c.changeset_id = id).tree_hash).value

C36_AddMarksAdded ==
    [][(op'.name = "add" /\ dir)
          => /\ (op'.kind = "Ok")
                    => \E q \in {op'.key, <<46, 47>> \o op'.key} :
                           /\ q \in DOMAIN SavedStates(index')
                           /\ SavedStates(index')[q] = "Added"
             /\ ~Path_exists(wt, op'.key)
                    => /\ op'.kind = "NotFound"
                       /\ SavedStates(index') = SavedStates(index)]_vars

\* The paths the saved index holds in state Added.
SavedAdded(states) == {q \in DOMAIN states : states[q] = "Added"}

\* C37: the paths a submit collects, and the changes of a submit that
\* returns Ok, one per path, are the paths the saved index held as Added
\* when the submit started; the index that submit saves holds every entry
\* as Untracked; and the submit that starts next on that index finds no
\* path to send.
C37_SubmitSendsAdded ==
    [][/\ (sub.pc = "loaded" /\ sub'.pc = "open")
              => sub'.added = SavedAdded(sub.before.states)
       /\ (op'.name = "submit" /\ op'.kind = "Ok")
              => /\ {sub.changes[k][1] : k \in 1..Len(sub.changes)}
                        = SavedAdded(sub.before.states)
                 /\ Len(sub.changes) = Cardinality(SavedAdded(sub.before.states))
                 /\ \A q \in DOMAIN SavedStates(index') :
                        SavedStates(index')[q] = "Untracked"
       /\ (op.name = "submit" /\ op.kind = "Ok" /\ sub'.pc = "loaded")
              => added(sub'.index) = {}]_vars

\* A second submit has returned Ok: the first sent "./a" alone, with
\* "./b" in the index and not added, and the second, with no add after
\* the first, carried no change; the saved index holds both as Untracked.
C37_Witness ==
    /\ op.name = "submit" /\ op.kind = "Ok" /\ op.value = 2
    /\ Cardinality(db.changesets) = 2
    /\ DOMAIN TreeOf(1) = {PathA}
    /\ TreeOf(2) = TreeOf(1)
    /\ {PathA, PathB} \subseteq DOMAIN SavedStates(index)
    /\ \A q \in DOMAIN SavedStates(index) : SavedStates(index)[q] = "Untracked"

(***************************************************************************)
(* Part 6: the replay over large logs.                                     *)
(*                                                                         *)
(* A record stands as its key and the sizes its header holds; the bytes of *)
(* a value of gigabytes are not kept.  Sizes and offsets are numbers of    *)
(* 48 bits held in two parts, so that a u32 is one whose upper part is     *)
(* below 2^16.                                                             *)
(***************************************************************************)
\* 2^16: a u32 is Wide(hi, lo) with hi and lo below it.
Limb == 65536

Small(n) == Wide(0, n)

\* a + b, in u64
Plus(a, b) == Wide(a.hi + b.hi + ((a.lo + b.lo) \div Limb), (a.lo + b.lo) % Limb)

Less(a, b) == a.hi < b.hi \/ (a.hi = b.hi /\ a.lo < b.lo)

\* Whether a u64 fits a u32, and the cast `as u32`, which keeps the low
\* 32 bits.
fits_u32(a) == a.hi < Limb

as_u32(a) == Wide(a.hi % Limb, a.lo)

\* The value sizes of the records: 1 byte, 2^31 bytes, and 2^32 - 21
\* bytes, with which a record of a one-byte key has 2^32 bytes.
BigSizes == {Small(1), Wide(32768, 0), Wide(65535, 65515)}

\* The keys of the records: "a", "b".
BigKeys == {<<97>>, <<98>>}

\* The record put appends for a key and a value of value_size bytes; kind
\* tells a record as put wrote it ("good") from one damaged afterwards.
BigRecord(key, value_size) ==
    [key |-> key, key_size |-> Small(Len(key)), value_size |-> value_size, kind |-> "good"]

\* The bytes a record takes in the file.
TrueSize(r) == Plus(Plus(Small(4 + HEADER_SIZE), r.key_size), r.value_size)

\* The offset in the file of the end of the first k records of the log.
RECURSIVE Offset(_, _)
Offset(log, k) == IF k = 0 THEN Small(0) ELSE Plus(Offset(log, k - 1), TrueSize(log[k]))

\* file.metadata()?.len()
FileSize(log) == Offset(log, Len(log))

\* One turn of the loop `while pos != size` of VelesStore::new.  The reads
\* go on from where the last one ended (cur records into the file) and
\* fail at the end of the file; a record whose lengths reach beyond the
\* end of the file fails a read, one whose checksum does not match ends
\* the loop with CorruptedData.  total_size is a sum of u32: where it does
\* not fit, a build with overflow checks panics and one without keeps the
\* low 32 bits.  file_offset is pos as u32.
replay_step(b) ==
    IF b.pos = FileSize(b.log) THEN [b EXCEPT !.pc = "Ok"]
    ELSE IF b.cur = Len(b.log) THEN [b EXCEPT !.pc = "IOError"]
    ELSE
        LET r == b.log[b.cur + 1]
            sum == TrueSize(r)
            total_size == as_u32(sum)
        IN IF r.kind = "long" THEN [b EXCEPT !.pc = "IOError"]
           ELSE IF r.kind = "crc" THEN [b EXCEPT !.pc = "CorruptedData"]
           ELSE IF ~fits_u32(sum) /\ b.checks THEN [b EXCEPT !.pc = "Panic"]
           ELSE [b EXCEPT !.cache = insert(@, r.key,
                                           VelesStoreEntry(DbPath, total_size,
                                                           as_u32(b.pos))),
                          !.pos = Plus(@, total_size),
                          !.cur = @ + 1]

\* put(key, value) with a value of value_size bytes: the record is
\* appended to the log.
BigPut(key, value_size) ==
    /\ big.pc # "scan"
    /\ Len(big.log) < MaxBig
    /\ big' = [NoBig EXCEPT !.log = Append(big.log, BigRecord(key, value_size))]
    /\ op' = Called("put", key, "Ok", <<>>)
    /\ UNCHANGED <<dir, fs, handle, cache, write_file, hist, fresh, compacts, faults, flip>>
    /\ UNCHANGED <<obj_vars, man_vars, led_vars>>

\* The file is damaged on disk in its last record: in a length field of
\* the header ("long": the record now reaches beyond the end of the file)
\* or elsewhere ("crc").
BigDamage(kind) ==
    /\ big.pc # "scan"
    /\ Len(big.log) > 0
    /\ big.log[Len(big.log)].kind = "good"
    /\ big' = [NoBig EXCEPT !.log = [big.log EXCEPT ![Len(big.log)].kind = kind]]
    /\ op' = Called("damage", <<>>, "Ok", <<>>)
    /\ UNCHANGED <<dir, fs, handle, cache, write_file, hist, fresh, compacts, faults, flip>>
    /\ UNCHANGED <<obj_vars, man_vars, led_vars>>

\* VelesStore::new() down to the head of its loop, in a build with
\* overflow checks or without.
BigNew(checks) ==
    /\ big.pc # "scan"
    /\ big' = [NoBig EXCEPT !.log = big.log, !.pc = "scan", !.checks = checks]
    /\ op' = Called("new", <<>>, "Loop", <<>>)
    /\ UNCHANGED <<dir, fs, handle, cache, write_file, hist, fresh, compacts, faults, flip>>
    /\ UNCHANGED <<obj_vars, man_vars, led_vars>>

\* One turn of the loop.
BigStep ==
    /\ big.pc = "scan"
    /\ big' = replay_step(big)
    /\ op' = Called("new", <<>>, IF big'.pc = "scan" THEN "Loop" ELSE big'.pc, <<>>)
    /\ UNCHANGED <<dir, fs, handle, cache, write_file, hist, fresh, compacts, faults, flip>>
    /\ UNCHANGED <<obj_vars, man_vars, led_vars>>

NextBig ==
    \/ \E key \in BigKeys, value_size \in BigSizes : BigPut(key, value_size)
    \/ \E kind \in {"long", "crc"} : BigDamage(kind)
    \/ \E checks \in BOOLEAN : BigNew(checks)
    \/ BigStep

SpecBig == Init /\ [][NextBig]_vars

\* C39: each turn of the replay loop that replays a record moves the read
\* position one record on and strictly increases pos; pos never exceeds
\* the size of the file; and the loop, which so takes no more turns than
\* the file has records and one, ends with pos equal to the size of the
\* file or with an error.
C39_ReplayAdvances ==
    [][(big.pc = "scan")
          => /\ (big'.pc = "scan")
                    => /\ big'.cur = big.cur + 1
                       /\ big'.cur <= Len(big.log)
                       /\ Less(big.pos, big'.pos)
             /\ ~Less(FileSize(big.log), big'.pos)
             /\ (big'.pc = "Ok") => big'.pos = FileSize(big.log)
             /\ big'.pc \in {"scan", "Ok", "IOError", "CorruptedData", "Panic"}]_vars

\* C40: the index entry made for a record replayed at open holds the
\* offset of the record's first byte in the log and the number of bytes
\* the record takes, 4 + header size + key_size + value_size, also where
\* these do not fit in 32 bits.
C40_EntriesAreExact ==
    [][(big.pc = "scan" /\ big'.pc = "scan")
          => LET r == big.log[big.cur + 1]
             IN big'.cache[r.key]
                    = VelesStoreEntry(DbPath, TrueSize(r), Offset(big.log, big.cur))]_vars

====
